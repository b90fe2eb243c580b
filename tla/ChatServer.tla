----------------------------- MODULE ChatServer -----------------------------
(***************************************************************************)
(* The chat server of 1142/Vinogradow.Aleksey/9.  One thread accepts       *)
(* connections and puts each into a free slot of the table users; a thread *)
(* per connection receives what its client sends and sends it to all other *)
(* slots.  The table, and the global new_user by which a thread is told    *)
(* its number, are shared without a lock.                                  *)
(*                                                                         *)
(* A client stands for its connection and for the thread that is created   *)
(* for it.  The network between them keeps the order of what is sent but   *)
(* not its boundaries.                                                     *)
(***************************************************************************)
EXTENDS Integers, SequencesExt

CONSTANTS
  Clients,      \* the clients that may connect, each once
  COLL_USERS,   \* the number of slots
  Free,         \* what a free slot holds, -1
  Sends,        \* bound: how many messages each client sends at most
  Exit          \* "exit"; the messages of a client are numbers below it

ASSUME ClientsAssumption ==
  /\ Free \notin Clients
  /\ COLL_USERS \in Nat \ {0}
  /\ Sends \in [Clients -> Nat]
  /\ Exit \in Nat /\ \A c \in Clients : Sends[c] < Exit

Slots == 0 .. COLL_USERS - 1

VARIABLES
  \* the clients and the network
  peer,       \* each client is "new" until it is accepted, then "open", and
              \* in the end "closed", or "broken" when the network knows that
              \* nobody reads what is sent to the client
  sent,       \* how many messages each client has sent
  inbox,      \* what the server has not received of them yet
  outbox,     \* what the server has sent to each client
  \* the server
  running,    \* the process has not ended
  users,      \* the table
  new_user,
  acceptor,   \* of potok: what it does next, i, and whom it has accepted
  thread,     \* of each potok2: what it does next, my_nom, the connection fd
              \* in its call of recv, buffer, and the i of send_all
  \* history: some thread has got a number that was not its client's
  mixed

network == <<peer, sent, inbox, outbox>>
vars == <<network, running, users, new_user, acceptor, thread, mixed>>

Searching == [at |-> "search", i |-> 0, accepted |-> Free]

NoThread == [at |-> "none", my_nom |-> 0, fd |-> Free, buffer |-> <<>>, i |-> 0]

\* main has made all slots free and started the accepting thread.
Init ==
  /\ peer = [c \in Clients |-> "new"]
  /\ sent = [c \in Clients |-> 0]
  /\ inbox = [c \in Clients |-> <<>>]
  /\ outbox = [c \in Clients |-> <<>>]
  /\ running = TRUE
  /\ users = [s \in Slots |-> Free]
  /\ new_user = 0
  /\ acceptor = Searching
  /\ thread = [c \in Clients |-> NoThread]
  /\ mixed = FALSE

-----------------------------------------------------------------------------
(***************************************************************************)
(* The clients                                                             *)
(***************************************************************************)

\* A client that has connected may send at once.
Send(c) ==
  /\ peer[c] \in {"new", "open"}
  /\ sent[c] < Sends[c]
  /\ sent' = [sent EXCEPT ![c] = @ + 1]
  /\ inbox' = [inbox EXCEPT ![c] = Append(@, sent[c] + 1)]
  /\ UNCHANGED <<peer, outbox>>

\* The client's process ends, and its system tells the network at once that
\* it is gone if there was something that it had not read.
Close(c) ==
  /\ peer[c] = "open"
  /\ \E p \in {"closed", "broken"} : peer' = [peer EXCEPT ![c] = p]
  /\ UNCHANGED outbox

\* The user enters "exit", which is sent before the client ends ...
SendExit(c) ==
  /\ Close(c)
  /\ sent' = [sent EXCEPT ![c] = Exit]
  /\ inbox' = [inbox EXCEPT ![c] = Append(@, Exit)]

\* ... or the client ends without a word.
Quit(c) == Close(c) /\ UNCHANGED <<sent, inbox>>

\* What clients do after the end of the server is left out.
Client(c) ==
  /\ running
  /\ Send(c) \/ SendExit(c) \/ Quit(c)
  /\ UNCHANGED <<running, users, new_user, acceptor, thread, mixed>>

-----------------------------------------------------------------------------
(***************************************************************************)
(* potok, which accepts connections                                        *)
(***************************************************************************)

\* Mutant: the index has moved on already when the slot is tested.
IsFree_Behind(s) == users[(s + 1) % COLL_USERS] = Free

IsFree(s) == users[s] = Free

\* The search for a free slot.  What it reads behind the table, when there is
\* none, is left out.
Search ==
  /\ acceptor.at = "search"
  /\ acceptor.i \in Slots
  /\ acceptor' = IF IsFree(acceptor.i) THEN [acceptor EXCEPT !.at = "accept"]
                 ELSE [acceptor EXCEPT !.i = @ + 1]
  /\ UNCHANGED <<network, running, users, new_user, thread, mixed>>

\* A client connects, now or before, and is accepted.
Accept(c) ==
  /\ running
  /\ acceptor.at = "accept"
  /\ peer[c] = "new"
  /\ peer' = [peer EXCEPT ![c] = "open"]
  /\ users' = [users EXCEPT ![acceptor.i] = c]
  /\ acceptor' = [acceptor EXCEPT !.at = "announce", !.accepted = c]
  /\ UNCHANGED <<sent, inbox, outbox, running, new_user, thread, mixed>>

Announce ==
  /\ acceptor.at = "announce"
  /\ new_user' = acceptor.i
  /\ acceptor' = [acceptor EXCEPT !.at = "create"]
  /\ UNCHANGED <<network, running, users, thread, mixed>>

CreateThread ==
  /\ acceptor.at = "create"
  /\ thread' = [thread EXCEPT ![acceptor.accepted].at = "begin"]
  /\ acceptor' = Searching
  /\ UNCHANGED <<network, running, users, new_user, mixed>>

\* What the accepting thread does by itself.
Acceptor == running /\ (Search \/ Announce \/ CreateThread)

-----------------------------------------------------------------------------
(***************************************************************************)
(* potok2, which serves the client c                                       *)
(***************************************************************************)

\* The thread goes on at the step s, which begins with an empty buffer.
Goto(c, s) ==
  thread' = [thread EXCEPT
    ![c] = [NoThread EXCEPT !.at = s, !.my_nom = thread[c].my_nom]]

TakeNumber(c) ==
  /\ thread[c].at = "begin"
  /\ thread' = [thread EXCEPT ![c].at = "recv", ![c].my_nom = new_user]
  /\ mixed' = (mixed \/ users[new_user] # c)
  /\ UNCHANGED <<network, users>>

\* recv is called with what is in the slot now, and may return much later.
CallRecv(c) ==
  /\ thread[c].at = "recv"
  /\ thread' = [thread EXCEPT ![c].at = "blocked",
                              ![c].fd = users[thread[c].my_nom]]
  /\ UNCHANGED <<network, users, mixed>>

\* Mutant: "exit" is looked for in the text.
IsExit_Within(text) == Exit \in ToSet(text)

\* The comparison with "exit", which does not see it behind another message.
IsExit(text) == text = <<Exit>>

\* Mutant: recv leaves in the connection what it returns (MSG_PEEK).
Left_All(q, n) == q

Left(q, n) == SubSeq(q, n + 1, Len(q))

\* recv returns some or all of what has come in.
Receive(c) ==
  LET from == thread[c].fd
  IN /\ thread[c].at = "blocked"
     /\ from # Free
     /\ \E n \in 1 .. Len(inbox[from]) :
          LET text == SubSeq(inbox[from], 1, n)
          IN /\ inbox' = [inbox EXCEPT ![from] = Left(@, n)]
             /\ thread' = [thread EXCEPT
                  ![c].buffer = text,
                  ![c].at = IF IsExit(text) THEN "leave" ELSE "send"]
     /\ UNCHANGED <<peer, sent, outbox, users, mixed>>

\* recv returns 0, and is called again.
ReceiveNothing(c) ==
  LET from == thread[c].fd
  IN /\ thread[c].at = "blocked"
     /\ from # Free
     /\ inbox[from] = <<>> /\ peer[from] \in {"closed", "broken"}
     /\ Goto(c, "recv")
     /\ UNCHANGED <<network, users, mixed>>

\* recv fails: there is no connection in the slot, or it is broken.
ReceiveFails(c) ==
  LET from == thread[c].fd
  IN /\ thread[c].at = "blocked"
     /\ from # Free => inbox[from] = <<>> /\ peer[from] = "broken"
     /\ Goto(c, "leave")
     /\ UNCHANGED <<network, users, mixed>>

\* The slot becomes free; the connection is not closed.
Leave(c) ==
  /\ thread[c].at = "leave"
  /\ users' = [users EXCEPT ![thread[c].my_nom] = Free]
  /\ Goto(c, "ended")
  /\ UNCHANGED <<network, mixed>>

\* Mutant: a message goes back to the client it came from.
IsReceiver_All(c, s) == users[s] # Free

IsReceiver(c, s) == users[s] # Free /\ s # thread[c].my_nom

\* send_all goes on to the next slot, or recv is called again.
NextReceiver(c) ==
  IF thread[c].i + 1 \in Slots THEN thread' = [thread EXCEPT ![c].i = @ + 1]
  ELSE Goto(c, "recv")

\* The text goes to the client in the slot.  The slot is read twice, for the
\* test and for the call; the call is where it counts, as sending to -1 does
\* nothing.  What is sent to a client that has gone makes the network find out
\* sooner or later, and from then on a send fails or ends the process by a
\* signal (SendBreaks).
SendTo(c) ==
  LET t == thread[c]
      to == users[t.i]
  IN /\ t.at = "send"
     /\ IsReceiver(c, t.i)
     /\ outbox' = [outbox EXCEPT ![to] =
          Append(@, [nom |-> t.my_nom, from |-> t.fd, text |-> t.buffer])]
     /\ \/ UNCHANGED peer
        \/ peer[to] = "closed" /\ peer' = [peer EXCEPT ![to] = "broken"]
     /\ NextReceiver(c)
     /\ UNCHANGED <<sent, inbox, users, mixed>>

SkipSlot(c) ==
  /\ thread[c].at = "send"
  /\ ~IsReceiver(c, thread[c].i)
  /\ NextReceiver(c)
  /\ UNCHANGED <<network, users, mixed>>

\* What is left when the process has ended.
End ==
  /\ running' = FALSE
  /\ users' = [s \in Slots |-> Free]
  /\ new_user' = 0
  /\ acceptor' = Searching
  /\ thread' = [c \in Clients |-> NoThread]
  /\ UNCHANGED <<network, mixed>>

SendBreaks(c) ==
  /\ running
  /\ thread[c].at = "send"
  /\ IsReceiver(c, thread[c].i)
  /\ peer[users[thread[c].i]] = "broken"
  /\ End

Thread(c) ==
  /\ running
  /\ \/ TakeNumber(c) \/ CallRecv(c)
     \/ Receive(c) \/ ReceiveNothing(c) \/ ReceiveFails(c)
     \/ Leave(c) \/ SendTo(c) \/ SkipSlot(c)
  /\ UNCHANGED <<running, new_user, acceptor>>

-----------------------------------------------------------------------------
\* The command "stop" ends main and with it the process.
Stop == running /\ End

Next ==
  \/ Acceptor
  \/ \E c \in Clients : Accept(c) \/ Thread(c) \/ SendBreaks(c) \/ Client(c)
  \/ Stop

\* Threads are scheduled; clients need not connect, send anything or leave.
Spec ==
  /\ Init /\ [][Next]_vars
  /\ WF_vars(Acceptor)
  /\ \A c \in Clients : WF_vars(Thread(c))

-----------------------------------------------------------------------------
(***************************************************************************)
(* Properties                                                              *)
(***************************************************************************)

\* Whatever the threads do to the table and to each other's numbers, nobody is
\* sent a message of his own (send_all leaves out the sender's slot only).
NoEcho == \A c \in Clients : \A k \in DOMAIN outbox[c] : outbox[c][k].from # c

Rising(text) == \A j, k \in DOMAIN text : j < k => text[j] < text[k]

Before(text, next) == \A j \in DOMAIN text, k \in DOMAIN next : text[j] < next[k]

\* Which of the things that d has been sent come from c.
Told(d, c) == {k \in DOMAIN outbox[d] : outbox[d][k].from = c}

\* As long as every thread has got its client's number, a client hears the
\* messages of another one in the order in which they were sent, none twice.
InOrder ==
  ~mixed => \A c, d \in Clients : \A k \in Told(d, c) :
              /\ Rising(outbox[d][k].text)
              /\ \A j \in Told(d, c) :
                   j < k => Before(outbox[d][j].text, outbox[d][k].text)

\* As long as every thread has got its client's number, a slot that is taken
\* is not given away, and becomes free only when its client has gone.
SlotsStand ==
  [][~mixed' /\ running' => \A s \in Slots :
       users'[s] # users[s] /\ users[s] # Free =>
         users'[s] = Free /\ peer[users[s]] \in {"closed", "broken"}]_vars

InTable(c) == \E s \in Slots : users[s] = c

HasHeard(d, c, n) ==
  \E k \in DOMAIN outbox[d] :
    outbox[d][k].from = c /\ n \in ToSet(outbox[d][k].text)

\* As long as every thread has got its client's number and the server runs, a
\* message that a client in the table has sent reaches everyone who is in the
\* table and stays, also if its sender leaves at once.
Delivered ==
  \A c \in Clients : \A d \in Clients \ {c}, n \in 1 .. Sends[c] :
    InTable(c) /\ InTable(d) /\ n \in ToSet(inbox[c])
    ~> mixed \/ ~running \/ peer[d] # "open" \/ HasHeard(d, c, n)

=============================================================================
