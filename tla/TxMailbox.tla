----------------------------- MODULE TxMailbox -----------------------------
(***************************************************************************)
(* What can_tx_message promises its caller, without interrupts, registers  *)
(* or a message RAM: a mailbox of one message.  A call puts its message in *)
(* the place of whatever lies there; the bus takes what lies there when it *)
(* likes, head first, and repeats that until it got through.  While it is  *)
(* at it the mailbox does not note that the content is another: a message  *)
(* that came too late to be taken is sent only if the bus has to take once *)
(* more.  The node closes and opens the mailbox by itself, and a closed    *)
(* one has nothing to send.                                                *)
(***************************************************************************)
CONSTANTS
    Messages,
    NoMessage   \* no message yet; no call under way

VARIABLES
    open,
    content,    \* the message in the mailbox
    waiting,    \* something is to be sent
    taken,      \* what the bus has taken of it: head, and data
    calling,    \* the message of the call under way
    answer,     \* of the last call
    sent        \* what was sent last: head of one message and data of another

mailVars == <<open, content, waiting, taken, calling, answer, sent>>

Nothing == [head |-> NoMessage, data |-> NoMessage]

MailInit ==
    /\ open = TRUE
    /\ content = NoMessage /\ calling = NoMessage
    /\ waiting = FALSE
    /\ taken = Nothing
    /\ answer = "none"
    /\ sent = Nothing

Begin(m) ==
    /\ calling = NoMessage
    /\ calling' = m
    /\ UNCHANGED <<open, content, waiting, taken, answer, sent>>

\* The content is replaced, whether it waits or not.
Replace ==
    /\ calling # NoMessage
    /\ content' = calling
    /\ UNCHANGED <<open, waiting, taken, calling, answer, sent>>

\* The caller is told that its message waits.  It does if the mailbox is still
\* open and the bus has taken nothing of another one.
Accept ==
    /\ calling # NoMessage /\ content = calling
    /\ waiting' = (waiting \/ open)
    /\ answer' = "STATUS_OK"
    /\ calling' = NoMessage
    /\ UNCHANGED <<open, content, taken, sent>>

Refuse ==
    /\ calling # NoMessage
    /\ ~open
    /\ answer' = "ERR_BUSY"
    /\ calling' = NoMessage
    /\ UNCHANGED <<open, content, waiting, taken, sent>>

\* The bus takes the content, its head and then its data.  Only a call that comes
\* between, or is under way, may tear it.
TakeHead ==
    /\ waiting /\ taken = Nothing
    /\ \E h \in {content} \cup ({calling} \ {NoMessage}) : taken' = [taken EXCEPT !.head = h]
    /\ UNCHANGED <<open, content, waiting, calling, answer, sent>>

TakeData ==
    /\ taken.head # NoMessage /\ taken.data = NoMessage
    /\ taken' = [taken EXCEPT !.data = content]
    /\ UNCHANGED <<open, content, waiting, calling, answer, sent>>

\* It got through, and nothing waits any more.
Sent ==
    /\ waiting /\ taken.data # NoMessage
    /\ sent' = taken
    /\ waiting' = FALSE /\ taken' = Nothing
    /\ UNCHANGED <<open, content, calling, answer>>

\* It did not, and has to be taken again.
GiveUp ==
    /\ waiting /\ taken # Nothing
    /\ taken' = Nothing
    /\ UNCHANGED <<open, content, waiting, calling, answer, sent>>

Close ==
    /\ open
    /\ open' = FALSE
    /\ waiting' = FALSE /\ taken' = Nothing
    /\ UNCHANGED <<content, calling, answer, sent>>

Open ==
    /\ ~open
    /\ open' = TRUE
    /\ UNCHANGED <<content, waiting, taken, calling, answer, sent>>

MailNext ==
    \/ \E m \in Messages : Begin(m)
    \/ Replace \/ Accept \/ Refuse
    \/ TakeHead \/ TakeData \/ Sent \/ GiveUp
    \/ Close \/ Open

MailSpec == MailInit /\ [][MailNext]_mailVars

=============================================================================
