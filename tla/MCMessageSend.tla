--------------------------- MODULE MCMessageSend ---------------------------
(* Instances of MessageSend for TLC: texts around the limit. *)
EXTENDS MessageSend

Two == {"m1", "m2"}
Alphabet == {"x", " ", "/"}

\* A short text; one with neither break nor space; breaks and spaces before,
\* at and after the limit, alone and together; and one that gets stuck.
Samples == {<<"x">>, <<"x", "x", "x">>, <<"x", " ", "x", "x">>, <<"x", "/", " ", "x", "x">>,
            <<"x", "x", "/", "x">>, <<"x", "/", "x", "x">>}

=============================================================================
