------------------------------ MODULE RxSlots ------------------------------
(***************************************************************************)
(* What the reception of responses promises the operator: a slot for each  *)
(* Rx buffer.  The bus fills a slot whose frame has been taken, the reader *)
(* takes a frame that is new and shows it.  No frame is replaced before it *)
(* was taken, and none is shown in two pieces that do not belong together  *)
(* unless the next one is already there and is going to be shown.          *)
(***************************************************************************)
CONSTANTS
    Slots,
    Frames,
    NoFrame   \* nothing was received yet

VARIABLES
    content,   \* what each slot holds
    unread,    \* the slots with a new frame
    reading,   \* the slot being read, if any
    shown      \* what was shown last of each slot: head and data

slotVars == <<content, unread, reading, shown>>

SlotsInit ==
    /\ content = [b \in Slots |-> NoFrame]
    /\ unread = {} /\ reading = {}
    /\ shown = [b \in Slots |-> [head |-> NoFrame, data |-> NoFrame]]

Arrive(b, f) ==
    /\ b \notin unread
    /\ content' = [content EXCEPT ![b] = f]
    /\ unread' = unread \cup {b}
    /\ UNCHANGED <<reading, shown>>

Take(b) ==
    /\ reading = {}
    /\ b \in unread
    /\ unread' = unread \ {b}
    /\ reading' = {b}
    /\ UNCHANGED <<content, shown>>

Show(b, head) ==
    /\ b \in reading
    /\ b \notin unread => head = content[b]
    /\ shown' = [shown EXCEPT ![b] = [head |-> head, data |-> content[b]]]
    /\ reading' = {}
    /\ UNCHANGED <<content, unread>>

SlotsNext ==
    \E b \in Slots :
      \/ \E f \in Frames : Arrive(b, f) \/ Show(b, f)
      \/ Take(b)

SlotsSpec == SlotsInit /\ [][SlotsNext]_slotVars

=============================================================================
