------------------------------ MODULE Mailbox ------------------------------
(***************************************************************************)
(* What message synchronisation promises to the user of the plugin, with   *)
(* no Long Poll, paging, request or timer in it.                           *)
(*                                                                         *)
(* Messages are numbered by the server in the order of their creation.     *)
(* The account keeps a cursor, last_msg_id.  A message is open while it    *)
(* can still be written to a conversation or to a log; it is written when  *)
(* it is open and is closed by that.  Everything above the cursor is open, *)
(* so it is caught up with at the next login.  Only a crash of the program *)
(* moves the cursor back, and not further than to the copy of it that was  *)
(* already written to disk.                                                *)
(***************************************************************************)
EXTENDS Naturals

CONSTANT MaxMsg     \* message ids are 1..MaxMsg

VARIABLES
    shown,      \* how many times each message was written for the user
    open,       \* messages that can still be written
    cursor,     \* last_msg_id of the account, in memory
    disk,       \* last_msg_id of the account, on disk
    crashes     \* how many times the program has crashed

vars == <<shown, open, cursor, disk, crashes>>

Msg == 1..MaxMsg

Above(c) == {m \in Msg : m > c}

Init ==
    /\ shown = [m \in Msg |-> 0]
    /\ open = Msg
    /\ cursor = 0
    /\ disk = 0
    /\ crashes = 0

(***************************************************************************)
(* The plugin writes the messages S and may advance the cursor.  It may    *)
(* give up open messages, but none above the new cursor.                   *)
(***************************************************************************)
Progress(S) ==
    /\ shown' = [m \in Msg |-> IF m \in S THEN shown[m] + 1 ELSE shown[m]]
    /\ cursor' \in cursor..MaxMsg
    /\ open' \subseteq open \ S
    /\ Above(cursor') \subseteq open'
    /\ UNCHANGED <<disk, crashes>>

Persist ==
    /\ disk' = cursor
    /\ UNCHANGED <<shown, open, cursor, crashes>>

Crash ==
    /\ crashes' = crashes + 1
    /\ cursor' = disk
    /\ open' = Above(disk)
    /\ UNCHANGED <<shown, disk>>

Next ==
    \/ \E S \in SUBSET open : Progress(S)
    \/ Persist
    \/ Crash

Spec == Init /\ [][Next]_vars

=============================================================================
