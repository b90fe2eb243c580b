------------------------- MODULE ChatServer_proofs -------------------------
(***************************************************************************)
(* Proofs about ChatServer, for any number of clients, slots and messages: *)
(* although threads can take each other's numbers, nobody hears himself;   *)
(* and until a thread has done so, a slot belongs to the client in it, and *)
(* everybody hears what another one has sent in the order it was sent.     *)
(***************************************************************************)
EXTENDS ChatServer, SequenceTheorems, TLAPS

Message ==
  [nom : Slots, from : Clients \cup {Free}, text : Seq(Nat)]

ThreadState ==
  [at : {"none", "begin", "recv", "blocked", "send", "leave", "ended"},
   my_nom : Slots, fd : Clients \cup {Free}, buffer : Seq(Nat), i : Slots]

TypeInv ==
  /\ peer \in [Clients -> {"new", "open", "closed", "broken"}]
  /\ sent \in [Clients -> Nat]
  /\ inbox \in [Clients -> Seq(Nat)]
  /\ outbox \in [Clients -> Seq(Message)]
  /\ running \in BOOLEAN
  /\ users \in [Slots -> Clients \cup {Free}]
  /\ new_user \in Slots
  /\ acceptor \in [at : {"search", "accept", "announce", "create"},
                   i : Nat, accepted : Clients \cup {Free}]
  /\ thread \in [Clients -> ThreadState]
  /\ mixed \in BOOLEAN

\* The accepting thread has found a free slot, which nobody else takes, and
\* has accepted a client who has no thread yet.
AcceptorInv ==
  /\ acceptor.at # "search" => acceptor.i \in Slots
  /\ acceptor.at = "accept" => users[acceptor.i] = Free
  /\ acceptor.at \in {"announce", "create"} =>
       acceptor.accepted \in Clients /\ peer[acceptor.accepted] # "new"
         /\ thread[acceptor.accepted].at = "none"
  /\ \A c \in Clients : peer[c] = "new" => thread[c].at = "none"

\* A client is in one slot at most, and only when it has been accepted.
TableInv ==
  /\ \A s \in Slots : users[s] # Free => peer[users[s]] # "new"
  /\ \A s, t \in Slots : users[s] # Free /\ users[s] = users[t] => s = t

\* The connection from which a thread receives is in no slot but the thread's.
SourceInv ==
  \A c \in Clients :
    /\ thread[c].at \in {"none", "begin", "recv"} => thread[c].fd = Free
    /\ thread[c].fd # Free =>
         /\ peer[thread[c].fd] # "new"
         /\ \A s \in Slots \ {thread[c].my_nom} : users[s] # thread[c].fd

\* Only a client that ends sends "exit".
ExitInv ==
  \A c \in Clients : peer[c] \in {"new", "open"} =>
    /\ sent[c] <= Sends[c]
    /\ \A k \in 1 .. Len(inbox[c]) : inbox[c][k] # Exit

\* Until a thread takes a wrong number, every thread serves its own client,
\* and leaves when the client has gone.
ServeInv ==
  ~mixed => \A c \in Clients :
    /\ thread[c].at \in {"recv", "blocked", "send", "leave"} =>
         users[thread[c].my_nom] = c
    /\ thread[c].at \in {"blocked", "send"} => thread[c].fd = c
    /\ thread[c].at = "leave" => peer[c] \in {"closed", "broken"}

EchoInv == \A c \in Clients : \A k \in 1 .. Len(outbox[c]) : outbox[c][k].from # c

\* What the echo depends on, and what the slots depend on.
HeardInv == TypeInv /\ AcceptorInv /\ TableInv /\ SourceInv /\ EchoInv

IInv == HeardInv /\ ExitInv /\ ServeInv

-----------------------------------------------------------------------------
LEMMA InitInv == Init => IInv
<1> SUFFICES ASSUME Init PROVE IInv
  OBVIOUS
<1> USE ClientsAssumption DEF Init
<1>1. 0 \in Slots
  BY DEF Slots
<1>2. TypeInv
  BY <1>1, EmptySeq DEF TypeInv, Searching, NoThread, ThreadState
<1>3. AcceptorInv /\ TableInv /\ SourceInv
  BY DEF AcceptorInv, TableInv, SourceInv, Searching, NoThread
<1>4. EchoInv /\ ExitInv /\ ServeInv
  BY DEF EchoInv, ExitInv, ServeInv, NoThread
<1>5. QED BY <1>2, <1>3, <1>4 DEF IInv, HeardInv

-----------------------------------------------------------------------------
(***************************************************************************)
(* The clients                                                             *)
(***************************************************************************)

LEMMA ClientStep ==
  ASSUME IInv, NEW c \in Clients, Client(c)
  PROVE  IInv'
<1> USE ClientsAssumption DEF IInv, HeardInv
<1>1. UNCHANGED <<outbox, running, users, new_user, acceptor, thread, mixed>>
  BY DEF Client, Send, SendExit, Quit, Close
<1>2. /\ peer' \in [Clients -> {"new", "open", "closed", "broken"}]
      /\ \A d \in Clients : peer'[d] = "new" <=> peer[d] = "new"
      /\ \A d \in Clients : peer[d] \in {"closed", "broken"} => peer'[d] = peer[d]
  BY DEF Client, Send, SendExit, Quit, Close, TypeInv
<1>3. TypeInv'
  <2>1. sent' \in [Clients -> Nat] /\ inbox' \in [Clients -> Seq(Nat)]
    <3>1. CASE Send(c)
      BY <3>1 DEF Send, TypeInv
    <3>2. CASE SendExit(c)
      BY <3>2 DEF SendExit, TypeInv
    <3>3. CASE Quit(c)
      BY <3>3 DEF Quit, TypeInv
    <3>4. QED BY <3>1, <3>2, <3>3 DEF Client
  <2>2. QED BY <1>1, <1>2, <2>1 DEF TypeInv
<1>4. AcceptorInv' /\ TableInv' /\ SourceInv' /\ EchoInv'
  BY <1>1, <1>2 DEF AcceptorInv, TableInv, SourceInv, EchoInv, TypeInv, ThreadState
<1>5. ServeInv'
  BY <1>1, <1>2 DEF ServeInv, TypeInv
<1>6. ExitInv'
  <2>1. CASE Send(c)
    <3>1. \A d \in Clients \ {c} : sent'[d] = sent[d] /\ inbox'[d] = inbox[d]
      BY <2>1 DEF Send, TypeInv
    <3>2. sent'[c] = sent[c] + 1 /\ inbox'[c] = Append(inbox[c], sent[c] + 1)
          /\ sent[c] \in Nat /\ sent[c] < Sends[c] /\ inbox[c] \in Seq(Nat)
          /\ peer[c] \in {"new", "open"}
      BY <2>1 DEF Send, TypeInv
    <3>3. Sends[c] \in Nat /\ Sends[c] < Exit /\ Exit \in Nat
      OBVIOUS
    <3>4. \A k \in 1 .. Len(inbox'[c]) : inbox'[c][k] # Exit
      <4> SUFFICES ASSUME NEW k \in 1 .. Len(inbox'[c]) PROVE inbox'[c][k] # Exit
        OBVIOUS
      <4>1. k \in 1 .. Len(inbox[c]) => inbox'[c][k] = inbox[c][k]
        BY <3>2
      <4>2. k \notin 1 .. Len(inbox[c]) => inbox'[c][k] = sent[c] + 1
        BY <3>2
      <4>3. QED BY <3>2, <3>3, <4>1, <4>2 DEF ExitInv
    <3>5. peer' = peer
      BY <2>1 DEF Send
    <3>6. sent'[c] <= Sends[c]
      BY <3>2, <3>3
    <3>7. \A d \in Clients \ {c} : peer'[d] \in {"new", "open"} =>
            /\ sent'[d] <= Sends[d]
            /\ \A k \in 1 .. Len(inbox'[d]) : inbox'[d][k] # Exit
      BY <3>1, <3>5 DEF ExitInv
    <3>8. QED BY <3>4, <3>6, <3>7 DEF ExitInv
  <2>2. CASE SendExit(c) \/ Quit(c)
    <3>1. \A d \in Clients : peer'[d] \in {"new", "open"} =>
            d # c /\ peer[d] = peer'[d]
      BY <2>2 DEF SendExit, Quit, Close, TypeInv
    <3>2. \A d \in Clients \ {c} : sent'[d] = sent[d] /\ inbox'[d] = inbox[d]
      BY <2>2 DEF SendExit, Quit, TypeInv
    <3>3. QED BY <3>1, <3>2 DEF ExitInv
  <2>3. QED BY <2>1, <2>2 DEF Client
<1>7. QED BY <1>3, <1>4, <1>5, <1>6

-----------------------------------------------------------------------------
(***************************************************************************)
(* The accepting thread                                                    *)
(***************************************************************************)

LEMMA AcceptorStep ==
  ASSUME IInv, Acceptor
  PROVE  IInv'
<1> USE ClientsAssumption DEF IInv, HeardInv
<1>1. CASE Search
  <2>1. acceptor.i \in Slots /\ acceptor.at = "search"
    BY <1>1 DEF Search
  <2>2. \/ /\ users[acceptor.i] = Free /\ acceptor'.at = "accept"
           /\ acceptor'.i = acceptor.i
        \/ acceptor'.at = "search"
    BY <1>1, <2>1 DEF Search, IsFree, TypeInv
  <2>3. acceptor' \in [at : {"search", "accept", "announce", "create"},
                       i : Nat, accepted : Clients \cup {Free}]
    <3>1. [acceptor EXCEPT !.at = "accept"]
            \in [at : {"search", "accept", "announce", "create"},
                i : Nat, accepted : Clients \cup {Free}]
      BY DEF TypeInv
    <3>2. [acceptor EXCEPT !.i = @ + 1]
            \in [at : {"search", "accept", "announce", "create"},
                i : Nat, accepted : Clients \cup {Free}]
      <4> DEFINE j == acceptor.i + 1
      <4>1. j \in Nat
        BY DEF TypeInv
      <4> HIDE DEF j
      <4>2. [acceptor EXCEPT !.i = j]
              \in [at : {"search", "accept", "announce", "create"},
                  i : Nat, accepted : Clients \cup {Free}]
        BY <4>1 DEF TypeInv
      <4>3. QED BY <4>2 DEF j
    <3>3. QED BY <1>1, <3>1, <3>2 DEF Search
  <2>4. TypeInv'
    BY <1>1, <2>3 DEF Search, network, TypeInv
  <2>5. AcceptorInv'
    BY <1>1, <2>1, <2>2 DEF Search, network, AcceptorInv
  <2>6. TableInv' /\ SourceInv' /\ EchoInv' /\ ExitInv' /\ ServeInv'
    BY <1>1 DEF Search, network, TableInv, SourceInv, EchoInv, ExitInv, ServeInv
  <2>7. QED BY <2>4, <2>5, <2>6
<1>2. CASE Announce
  BY <1>2 DEF Announce, network, TypeInv, AcceptorInv, TableInv, SourceInv,
       EchoInv, ExitInv, ServeInv
<1>3. CASE CreateThread
  <2>1. acceptor.accepted \in Clients /\ thread[acceptor.accepted].at = "none"
        /\ peer[acceptor.accepted] # "new"
    BY <1>3 DEF CreateThread, AcceptorInv
  <2>2. TypeInv'
    <3>1. thread' \in [Clients -> ThreadState]
      <4> DEFINE t == [thread[acceptor.accepted] EXCEPT !.at = "begin"]
      <4>1. t \in ThreadState
        BY <2>1 DEF TypeInv, ThreadState
      <4>2. thread' = [thread EXCEPT ![acceptor.accepted] = t]
        BY <1>3 DEF CreateThread
      <4> HIDE DEF t
      <4>3. QED BY <4>1, <4>2 DEF TypeInv
    <3>2. acceptor' \in [at : {"search", "accept", "announce", "create"},
                         i : Nat, accepted : Clients \cup {Free}]
      BY <1>3 DEF CreateThread, Searching
    <3>3. QED BY <1>3, <3>1, <3>2 DEF CreateThread, network, TypeInv
  <2>3. \A c \in Clients : /\ thread'[c].fd = thread[c].fd
                           /\ thread'[c].my_nom = thread[c].my_nom
                           /\ thread'[c].at = IF c = acceptor.accepted THEN "begin"
                                              ELSE thread[c].at
    BY <1>3, <2>1 DEF CreateThread, TypeInv, ThreadState
  <2>4. AcceptorInv' /\ TableInv' /\ SourceInv'
    BY <1>3, <2>1, <2>3 DEF CreateThread, network, AcceptorInv, TableInv,
         SourceInv, Searching
  <2>5. EchoInv' /\ ExitInv' /\ ServeInv'
    BY <1>3, <2>1, <2>3 DEF CreateThread, network, EchoInv, ExitInv, ServeInv
  <2>6. QED BY <2>2, <2>4, <2>5
<1>4. QED BY <1>1, <1>2, <1>3 DEF Acceptor

LEMMA AcceptStep ==
  ASSUME IInv, NEW c \in Clients, Accept(c)
  PROVE  IInv'
<1> USE ClientsAssumption DEF IInv, HeardInv
<1>1. /\ acceptor.i \in Slots /\ users[acceptor.i] = Free /\ peer[c] = "new"
      /\ thread[c].at = "none"
  BY DEF Accept, AcceptorInv
<1>2. TypeInv'
  BY <1>1 DEF Accept, TypeInv
<1>3. \A s \in Slots : users[s] # c
  BY <1>1 DEF TableInv
<1>4. \A d \in Clients : thread[d].fd # c
  BY <1>1 DEF SourceInv
<1>5. AcceptorInv'
  BY <1>1 DEF Accept, AcceptorInv, TypeInv
<1>6. TableInv'
  BY <1>1, <1>3 DEF Accept, TableInv, TypeInv
<1>7. SourceInv'
  BY <1>1, <1>4 DEF Accept, SourceInv, TypeInv, ThreadState
<1>8. EchoInv' /\ ExitInv'
  BY <1>1 DEF Accept, EchoInv, ExitInv, TypeInv
<1>9. ServeInv'
  BY <1>1 DEF Accept, ServeInv, TypeInv, ThreadState
<1>10. QED BY <1>2, <1>5, <1>6, <1>7, <1>8, <1>9

-----------------------------------------------------------------------------
(***************************************************************************)
(* The threads of the clients                                              *)
(***************************************************************************)

\* The thread of c goes on as t; nothing else about the threads changes.
Becomes(c, t) == t \in ThreadState /\ thread' = [thread EXCEPT ![c] = t]

LEMMA GotoBecomes ==
  ASSUME TypeInv, NEW c \in Clients,
         NEW s \in {"recv", "leave", "ended"}, Goto(c, s)
  PROVE  \E t : /\ Becomes(c, t) /\ t.at = s /\ t.fd = Free
                /\ t.my_nom = thread[c].my_nom
<1> DEFINE t == [NoThread EXCEPT !.at = s, !.my_nom = thread[c].my_nom]
<1>1. thread[c].my_nom \in Slots
  BY DEF TypeInv, ThreadState
<1>2. 0 \in Slots /\ <<>> \in Seq(Nat)
  BY ClientsAssumption DEF Slots
<1>3. t \in ThreadState /\ t.at = s /\ t.fd = Free /\ t.my_nom = thread[c].my_nom
  BY <1>1, <1>2 DEF ThreadState, NoThread
<1>4. thread' = [thread EXCEPT ![c] = t]
  BY DEF Goto
<1> HIDE DEF t
<1>5. QED BY <1>3, <1>4 DEF Becomes

\* A thread that changes neither the table nor what is sent to clients; a
\* connection that it takes is the one in its slot.
LEMMA QuietStep ==
  ASSUME IInv, NEW c \in Clients, NEW t, Becomes(c, t),
         UNCHANGED <<peer, sent, outbox, running, users, new_user, acceptor>>,
         inbox' \in [Clients -> Seq(Nat)], ExitInv',
         mixed' \in BOOLEAN, mixed => mixed',
         thread[c].at \notin {"none", "ended"}, t.at \notin {"none", "begin"},
         t.at = "recv" => t.fd = Free,
         t.fd # Free => \/ t.fd = thread[c].fd /\ t.my_nom = thread[c].my_nom
                        \/ t.fd = users[t.my_nom],
         ~mixed' =>
           /\ t.at \in {"recv", "blocked", "send", "leave"} => users[t.my_nom] = c
           /\ t.at \in {"blocked", "send"} => t.fd = c
           /\ t.at = "leave" => peer[c] \in {"closed", "broken"}
  PROVE  IInv'
<1> USE ClientsAssumption DEF IInv, HeardInv
<1>1. thread' \in [Clients -> ThreadState] /\ thread'[c] = t
      /\ \A d \in Clients \ {c} : thread'[d] = thread[d]
  BY DEF Becomes, TypeInv
<1>2. TypeInv'
  BY <1>1 DEF TypeInv
<1>3. AcceptorInv'
  BY <1>1 DEF AcceptorInv
<1>4. TableInv' /\ EchoInv'
  BY DEF TableInv, EchoInv
<1>5. SourceInv'
  <2>1. ASSUME t.fd # Free
        PROVE  peer[t.fd] # "new" /\ \A s \in Slots \ {t.my_nom} : users[s] # t.fd
    <3>1. CASE t.fd = thread[c].fd /\ t.my_nom = thread[c].my_nom
      BY <2>1, <3>1 DEF SourceInv
    <3>2. CASE t.fd = users[t.my_nom]
      <4>1. t.my_nom \in Slots
        BY DEF Becomes, ThreadState
      <4>2. QED BY <2>1, <3>2, <4>1 DEF TableInv
    <3>3. QED BY <2>1, <3>1, <3>2
  <2>2. t.at \in {"none", "begin", "recv"} => t.fd = Free
    OBVIOUS
  <2>3. users' = users /\ peer' = peer
    OBVIOUS
  <2> HIDE DEF IInv, HeardInv
  <2>4. \A d \in Clients \ {c} :
          /\ thread'[d].at \in {"none", "begin", "recv"} => thread'[d].fd = Free
          /\ thread'[d].fd # Free =>
               /\ peer'[thread'[d].fd] # "new"
               /\ \A s \in Slots \ {thread'[d].my_nom} : users'[s] # thread'[d].fd
    <3> SUFFICES ASSUME NEW d \in Clients \ {c}
                 PROVE  /\ thread[d].at \in {"none", "begin", "recv"} =>
                             thread[d].fd = Free
                        /\ thread[d].fd # Free =>
                             /\ peer[thread[d].fd] # "new"
                             /\ \A s \in Slots \ {thread[d].my_nom} :
                                  users[s] # thread[d].fd
      BY <1>1, <2>3
    <3>1. SourceInv
      BY DEF IInv, HeardInv
    <3>2. QED BY <3>1 DEF SourceInv
  <2>5. QED BY <1>1, <2>1, <2>2, <2>3, <2>4 DEF SourceInv
<1>6. ServeInv'
  BY <1>1 DEF ServeInv
<1>7. QED BY <1>2, <1>3, <1>4, <1>5, <1>6

LEMMA TakeNumberStep ==
  ASSUME IInv, NEW c \in Clients, TakeNumber(c),
         UNCHANGED <<running, new_user, acceptor>>
  PROVE  IInv'
<1> USE ClientsAssumption DEF IInv, HeardInv
<1> DEFINE t == [thread[c] EXCEPT !.at = "recv", !.my_nom = new_user]
<1>1. thread[c] \in ThreadState /\ thread[c].at = "begin" /\ thread[c].fd = Free
  BY DEF TakeNumber, TypeInv, SourceInv
<1>2. t \in ThreadState /\ t.at = "recv" /\ t.my_nom = new_user /\ t.fd = Free
  BY <1>1 DEF ThreadState, TypeInv
<1>3. thread' = [thread EXCEPT ![c] = t]
  BY DEF TakeNumber
<1>4. mixed' \in BOOLEAN /\ (mixed => mixed') /\ (~mixed' => users[new_user] = c)
  BY DEF TakeNumber, TypeInv
<1>5. ExitInv' /\ inbox' \in [Clients -> Seq(Nat)]
  BY DEF TakeNumber, network, ExitInv, TypeInv
<1> HIDE DEF t, IInv, HeardInv
<1>6. QED
  BY <1>1, <1>2, <1>3, <1>4, <1>5, QuietStep DEF Becomes, TakeNumber, network

LEMMA CallRecvStep ==
  ASSUME IInv, NEW c \in Clients, CallRecv(c),
         UNCHANGED <<running, new_user, acceptor>>
  PROVE  IInv'
<1> USE ClientsAssumption DEF IInv, HeardInv
<1> DEFINE t == [thread[c] EXCEPT !.at = "blocked", !.fd = users[thread[c].my_nom]]
<1>1. thread[c] \in ThreadState /\ thread[c].at = "recv"
      /\ users[thread[c].my_nom] \in Clients \cup {Free}
  BY DEF CallRecv, TypeInv, ThreadState
<1>2. t \in ThreadState /\ t.at = "blocked" /\ t.my_nom = thread[c].my_nom
      /\ t.fd = users[t.my_nom]
  BY <1>1 DEF ThreadState
<1>3. thread' = [thread EXCEPT ![c] = t]
  BY DEF CallRecv
<1>4. mixed' \in BOOLEAN /\ (mixed => mixed')
      /\ (~mixed' => users[thread[c].my_nom] = c)
  BY <1>1 DEF CallRecv, TypeInv, ServeInv
<1>5. ExitInv' /\ inbox' \in [Clients -> Seq(Nat)]
  BY DEF CallRecv, network, ExitInv, TypeInv
<1> HIDE DEF t, IInv, HeardInv
<1>6. QED
  BY <1>1, <1>2, <1>3, <1>4, <1>5, QuietStep DEF Becomes, CallRecv, network

\* recv returns with nothing or with an error.
LEMMA NothingReceivedStep ==
  ASSUME IInv, NEW c \in Clients, ReceiveNothing(c) \/ ReceiveFails(c),
         UNCHANGED <<running, new_user, acceptor>>
  PROVE  IInv'
<1> USE ClientsAssumption DEF IInv, HeardInv
<1> DEFINE s == IF ReceiveNothing(c) THEN "recv" ELSE "leave"
<1>1. thread[c] \in ThreadState /\ thread[c].at = "blocked"
  BY DEF ReceiveNothing, ReceiveFails, TypeInv
<1>2. Goto(c, s) /\ UNCHANGED <<network, users, mixed>>
  BY DEF ReceiveNothing, ReceiveFails
<1>3. ~mixed => /\ users[thread[c].my_nom] = c
                /\ s = "leave" => peer[c] \in {"closed", "broken"}
  BY <1>1 DEF ServeInv, ReceiveFails
<1>4. PICK t : /\ Becomes(c, t) /\ t.at = s /\ t.fd = Free
               /\ t.my_nom = thread[c].my_nom
  BY <1>2, GotoBecomes
<1>5. ExitInv' /\ inbox' \in [Clients -> Seq(Nat)] /\ mixed' \in BOOLEAN
  BY <1>2 DEF network, ExitInv, TypeInv
<1> HIDE DEF IInv, HeardInv
<1>6. QED BY <1>1, <1>2, <1>3, <1>4, <1>5, QuietStep DEF network

\* recv returns text, which is the word "exit" only if the client has gone.
LEMMA ReceiveStep ==
  ASSUME IInv, NEW c \in Clients, Receive(c),
         UNCHANGED <<running, new_user, acceptor>>
  PROVE  IInv'
<1> USE ClientsAssumption DEF IInv, HeardInv
<1> DEFINE from == thread[c].fd
<1>1. thread[c] \in ThreadState /\ thread[c].at = "blocked" /\ from \in Clients
  BY DEF Receive, TypeInv, ThreadState
<1>2. PICK n \in 1 .. Len(inbox[from]) :
        LET text == SubSeq(inbox[from], 1, n)
        IN /\ inbox' = [inbox EXCEPT ![from] = Left(@, n)]
           /\ thread' = [thread EXCEPT
                ![c].buffer = text,
                ![c].at = IF IsExit(text) THEN "leave" ELSE "send"]
  BY DEF Receive
<1> DEFINE text == SubSeq(inbox[from], 1, n)
           s == IF IsExit(text) THEN "leave" ELSE "send"
           t == [thread[c] EXCEPT !.buffer = text, !.at = s]
<1>3. inbox[from] \in Seq(Nat) /\ n \in Nat /\ 1 <= n /\ n <= Len(inbox[from])
  BY <1>1 DEF TypeInv
<1>4. text \in Seq(Nat) /\ Len(text) = n /\ \A k \in 1 .. n : text[k] = inbox[from][k]
  BY <1>3
<1>5. t \in ThreadState /\ t.at = s /\ t.my_nom = thread[c].my_nom /\ t.fd = from
  <2> HIDE DEF text
  <2>1. QED BY <1>1, <1>4 DEF ThreadState
<1>6. thread' = [thread EXCEPT ![c] = t]
  BY <1>2
<1>7. inbox' \in [Clients -> Seq(Nat)]
      /\ \A d \in Clients \ {from} : inbox'[d] = inbox[d]
  <2>1. Left(inbox[from], n) \in Seq(Nat)
    BY <1>3 DEF Left
  <2> HIDE DEF from
  <2>2. QED BY <1>1, <1>2, <2>1 DEF TypeInv
<1>8. \A k \in 1 .. Len(inbox'[from]) :
        \E j \in 1 .. Len(inbox[from]) : inbox'[from][k] = inbox[from][j]
  <2>1. inbox'[from] = SubSeq(inbox[from], n + 1, Len(inbox[from]))
    BY <1>1, <1>2 DEF Left, TypeInv
  <2>2. SUFFICES ASSUME NEW k \in 1 .. Len(inbox'[from])
                 PROVE  \E j \in 1 .. Len(inbox[from]) :
                          inbox'[from][k] = inbox[from][j]
    OBVIOUS
  <2>3. inbox'[from][k] = inbox[from][k + n] /\ k + n \in 1 .. Len(inbox[from])
    BY <1>3, <2>1, <2>2
  <2>4. QED BY <2>3
<1>9. UNCHANGED <<peer, sent, outbox, users, mixed>>
  BY DEF Receive
<1>10. ExitInv'
  <2>1. peer' = peer /\ sent' = sent
    BY <1>9
  <2>2. ASSUME NEW d \in Clients, peer[d] \in {"new", "open"}
        PROVE  \A k \in 1 .. Len(inbox'[d]) : inbox'[d][k] # Exit
    BY <1>7, <1>8, <2>2 DEF ExitInv
  <2>3. QED BY <2>1, <2>2 DEF ExitInv
<1>11. ~mixed => from = c /\ users[thread[c].my_nom] = c
  BY <1>1 DEF ServeInv
<1>12. s = "leave" => peer[from] \in {"closed", "broken"}
  <2>1. ASSUME s = "leave" PROVE inbox[from][1] = Exit
    <3>1. text = <<Exit>>
      BY <2>1 DEF IsExit
    <3> HIDE DEF text
    <3>2. text[1] = Exit
      BY <3>1
    <3>3. QED BY <1>3, <1>4, <3>2
  <2>2. peer[from] \in {"new", "open"} => inbox[from][1] # Exit
    BY <1>1, <1>3 DEF ExitInv
  <2>3. peer[from] \in {"new", "open", "closed", "broken"}
    BY <1>1 DEF TypeInv
  <2>4. QED BY <2>1, <2>2, <2>3
<1>13. mixed' \in BOOLEAN /\ mixed' = mixed
  BY <1>9 DEF TypeInv
<1>14. s \in {"leave", "send"}
  OBVIOUS
<1>15. Becomes(c, t)
  BY <1>5, <1>6 DEF Becomes
<1>16. ~mixed' =>
         /\ t.at \in {"recv", "blocked", "send", "leave"} => users[t.my_nom] = c
         /\ t.at \in {"blocked", "send"} => t.fd = c
         /\ t.at = "leave" => peer[c] \in {"closed", "broken"}
  <2> HIDE DEF t, s, from
  <2>1. QED BY <1>5, <1>11, <1>12, <1>13
<1>17. /\ thread[c].at \notin {"none", "ended"}
       /\ t.at \notin {"none", "begin", "recv"}
  <2> HIDE DEF t, s
  <2>1. QED BY <1>1, <1>5, <1>14
<1>18. t.fd = thread[c].fd /\ t.my_nom = thread[c].my_nom
  BY <1>5
<1> HIDE DEF t, s, text, from, IInv, HeardInv
<1>19. QED
  BY <1>7, <1>9, <1>10, <1>13, <1>15, <1>16, <1>17, <1>18, QuietStep

\* The slot of a thread that ends becomes free.
LEMMA LeaveStep ==
  ASSUME IInv, NEW c \in Clients, Leave(c),
         UNCHANGED <<running, new_user, acceptor>>
  PROVE  IInv'
<1> USE ClientsAssumption DEF IInv, HeardInv
<1>1. thread[c] \in ThreadState /\ thread[c].at = "leave"
  BY DEF Leave, TypeInv
<1>2. PICK t : /\ Becomes(c, t) /\ t.at = "ended" /\ t.fd = Free
               /\ t.my_nom = thread[c].my_nom
  BY GotoBecomes DEF Leave
<1>3. thread' \in [Clients -> ThreadState] /\ thread'[c] = t
      /\ \A d \in Clients \ {c} : thread'[d] = thread[d]
  BY <1>2 DEF Becomes, TypeInv
<1>4. UNCHANGED <<peer, sent, inbox, outbox, mixed>>
  BY DEF Leave, network
<1>5. /\ users' \in [Slots -> Clients \cup {Free}]
      /\ \A s \in Slots : users'[s] = Free \/ users'[s] = users[s]
      /\ \A s \in Slots \ {thread[c].my_nom} : users'[s] = users[s]
  BY <1>1 DEF Leave, TypeInv, ThreadState
<1>6. TypeInv'
  BY <1>3, <1>4, <1>5 DEF TypeInv
<1>7. AcceptorInv'
  BY <1>1, <1>2, <1>3, <1>4, <1>5 DEF AcceptorInv
<1>8. TableInv' /\ EchoInv' /\ ExitInv'
  BY <1>4, <1>5 DEF TableInv, EchoInv, ExitInv
<1>9. SourceInv'
  BY <1>2, <1>3, <1>4, <1>5 DEF SourceInv
<1>10. ServeInv'
  <2> SUFFICES ASSUME ~mixed, NEW d \in Clients \ {c}
               PROVE  thread[d].at \in {"recv", "blocked", "send", "leave"} =>
                        users'[thread[d].my_nom] = users[thread[d].my_nom]
    BY <1>2, <1>3, <1>4 DEF ServeInv
  <2>1. users[thread[c].my_nom] = c
    BY <1>1 DEF ServeInv
  <2>2. thread[d].my_nom \in Slots
    BY DEF TypeInv, ThreadState
  <2>3. QED BY <1>5, <2>1, <2>2 DEF ServeInv
<1>11. QED BY <1>6, <1>7, <1>8, <1>9, <1>10

\* After a slot send_all goes on to the next one, or the thread to recv.
LEMMA NextReceiverBecomes ==
  ASSUME TypeInv, NEW c \in Clients, thread[c].at = "send", NextReceiver(c)
  PROVE  \E t : /\ Becomes(c, t) /\ t.my_nom = thread[c].my_nom
                /\ \/ /\ t.at = "send" /\ t.fd = thread[c].fd
                      /\ t.buffer = thread[c].buffer /\ t.i = thread[c].i + 1
                   \/ t.at = "recv" /\ t.fd = Free
<1>1. CASE thread[c].i + 1 \in Slots
  <2> DEFINE t == [thread[c] EXCEPT !.i = @ + 1]
  <2>1. thread[c] \in ThreadState
    BY DEF TypeInv
  <2>2. t \in ThreadState /\ t.at = "send" /\ t.fd = thread[c].fd
        /\ t.my_nom = thread[c].my_nom
        /\ t.buffer = thread[c].buffer /\ t.i = thread[c].i + 1
    BY <1>1, <2>1 DEF ThreadState
  <2>3. thread' = [thread EXCEPT ![c] = t]
    BY <1>1 DEF NextReceiver
  <2> HIDE DEF t
  <2>4. QED BY <2>2, <2>3 DEF Becomes
<1>2. CASE thread[c].i + 1 \notin Slots
  <2>1. Goto(c, "recv")
    BY <1>2 DEF NextReceiver
  <2>2. QED BY <2>1, GotoBecomes
<1>3. QED BY <1>1, <1>2

LEMMA SkipSlotStep ==
  ASSUME IInv, NEW c \in Clients, SkipSlot(c),
         UNCHANGED <<running, new_user, acceptor>>
  PROVE  IInv'
<1> USE ClientsAssumption DEF IInv, HeardInv
<1>1. thread[c].at = "send"
  BY DEF SkipSlot
<1>2. PICK t : /\ Becomes(c, t) /\ t.my_nom = thread[c].my_nom
               /\ \/ t.at = "send" /\ t.fd = thread[c].fd
                  \/ t.at = "recv" /\ t.fd = Free
  BY <1>1, NextReceiverBecomes DEF SkipSlot
<1>3. ~mixed => users[thread[c].my_nom] = c /\ thread[c].fd = c
  BY <1>1 DEF ServeInv
<1>4. UNCHANGED <<network, users, mixed>>
  BY DEF SkipSlot
<1>5. ExitInv' /\ inbox' \in [Clients -> Seq(Nat)] /\ mixed' \in BOOLEAN
  BY <1>4 DEF network, ExitInv, TypeInv
<1> HIDE DEF IInv, HeardInv
<1>6. QED BY <1>1, <1>2, <1>3, <1>4, <1>5, QuietStep DEF network

\* The text goes to a client that is not the one it came from, since that one
\* is in no other slot.
LEMMA SendToStep ==
  ASSUME IInv, NEW c \in Clients, SendTo(c),
         UNCHANGED <<running, new_user, acceptor>>
  PROVE  IInv'
<1> USE ClientsAssumption DEF IInv, HeardInv
<1> DEFINE to == users[thread[c].i]
           message == [nom |-> thread[c].my_nom, from |-> thread[c].fd,
                       text |-> thread[c].buffer]
<1>1. thread[c] \in ThreadState /\ thread[c].at = "send" /\ thread[c].i \in Slots
  BY DEF SendTo, TypeInv, ThreadState
<1>2. to \in Clients /\ thread[c].i # thread[c].my_nom
  BY <1>1 DEF SendTo, IsReceiver, TypeInv
<1>3. message \in Message
  BY <1>1 DEF Message, ThreadState
<1>4. message.from # to
  BY <1>1, <1>2 DEF SourceInv
<1>5. PICK t : /\ Becomes(c, t) /\ t.my_nom = thread[c].my_nom
               /\ \/ t.at = "send" /\ t.fd = thread[c].fd
                  \/ t.at = "recv" /\ t.fd = Free
  BY <1>1, NextReceiverBecomes DEF SendTo
<1>6. thread' \in [Clients -> ThreadState] /\ thread'[c] = t
      /\ \A d \in Clients \ {c} : thread'[d] = thread[d]
  BY <1>5 DEF Becomes, TypeInv
<1>7. outbox' = [outbox EXCEPT ![to] = Append(@, message)]
  BY DEF SendTo
<1>8. UNCHANGED <<sent, inbox, users, mixed>>
  BY DEF SendTo
<1>9. /\ peer' \in [Clients -> {"new", "open", "closed", "broken"}]
      /\ \A d \in Clients : peer'[d] = peer[d]
           \/ (peer[d] = "closed" /\ peer'[d] = "broken")
  BY <1>2 DEF SendTo, TypeInv
<1> HIDE DEF message, to
<1>10. outbox' \in [Clients -> Seq(Message)]
  BY <1>2, <1>3, <1>7 DEF TypeInv
<1>11. TypeInv'
  BY <1>6, <1>8, <1>9, <1>10 DEF TypeInv
<1>12. EchoInv'
  <2> SUFFICES ASSUME NEW d \in Clients, NEW k \in 1 .. Len(outbox'[d])
               PROVE  outbox'[d][k].from # d
    BY DEF EchoInv
  <2>1. CASE d = to /\ k = Len(outbox[d]) + 1
    BY <1>4, <1>7, <2>1 DEF TypeInv
  <2>2. CASE d # to \/ k # Len(outbox[d]) + 1
    <3>1. k \in 1 .. Len(outbox[d]) /\ outbox'[d][k] = outbox[d][k]
      BY <1>7, <2>2 DEF TypeInv
    <3>2. QED BY <3>1 DEF EchoInv
  <2>3. QED BY <2>1, <2>2
<1>13. AcceptorInv'
  BY <1>1, <1>5, <1>6, <1>8, <1>9 DEF AcceptorInv, TypeInv
<1>14. TableInv' /\ ExitInv'
  BY <1>8, <1>9 DEF TableInv, ExitInv, TypeInv
<1>15. SourceInv'
  <2>1. \A d \in Clients : peer[d] # "new" => peer'[d] # "new"
    BY <1>9
  <2>2. \A d \in Clients :
          /\ thread'[d].at \in {"none", "begin", "recv"} => thread'[d].fd = Free
          /\ thread'[d].my_nom = thread[d].my_nom
          /\ thread'[d].fd \in {thread[d].fd, Free}
    BY <1>1, <1>5, <1>6 DEF SourceInv
  <2>3. \A d \in Clients : thread[d].fd \in Clients \cup {Free}
    BY DEF TypeInv, ThreadState
  <2>4. users' = users
    BY <1>8
  <2>5. QED BY <2>1, <2>2, <2>3, <2>4 DEF SourceInv
<1>16. ServeInv'
  BY <1>1, <1>5, <1>6, <1>8, <1>9 DEF ServeInv
<1>17. QED BY <1>11, <1>12, <1>13, <1>14, <1>15, <1>16

\* The end of the process leaves only the network.
LEMMA EndStep ==
  ASSUME IInv, End
  PROVE  IInv'
<1> USE ClientsAssumption DEF IInv, HeardInv
<1>1. 0 \in Slots
  BY DEF Slots
<1>2. TypeInv'
  BY <1>1, EmptySeq DEF End, network, TypeInv, Searching, NoThread, ThreadState
<1>3. AcceptorInv' /\ TableInv' /\ SourceInv'
  BY DEF End, AcceptorInv, TableInv, SourceInv, Searching, NoThread
<1>4. EchoInv' /\ ExitInv' /\ ServeInv'
  BY DEF End, network, EchoInv, ExitInv, ServeInv, NoThread
<1>5. QED BY <1>2, <1>3, <1>4

-----------------------------------------------------------------------------
LEMMA StepInv == IInv /\ [Next]_vars => IInv'
<1> SUFFICES ASSUME IInv, [Next]_vars PROVE IInv'
  OBVIOUS
<1>1. CASE Acceptor
  BY <1>1, AcceptorStep
<1>2. ASSUME NEW c \in Clients, Accept(c) \/ Client(c) PROVE IInv'
  BY <1>2, AcceptStep, ClientStep
<1>3. ASSUME NEW c \in Clients, Thread(c) PROVE IInv'
  BY <1>3, TakeNumberStep, CallRecvStep, ReceiveStep, NothingReceivedStep,
     LeaveStep, SendToStep, SkipSlotStep DEF Thread
<1>4. CASE Stop \/ \E c \in Clients : SendBreaks(c)
  BY <1>4, EndStep DEF Stop, SendBreaks
<1>5. CASE UNCHANGED vars
  BY <1>5 DEF vars, network, IInv, HeardInv, TypeInv, AcceptorInv, TableInv,
       SourceInv, EchoInv, ExitInv, ServeInv
<1>6. QED BY <1>1, <1>2, <1>3, <1>4, <1>5 DEF Next

LEMMA AlwaysInv == Spec => []IInv
BY InitInv, StepInv, PTL DEF Spec

-----------------------------------------------------------------------------
\* However the threads race for new_user and for slots, no client is sent a
\* message of his own: send_all leaves out one slot, and he is in no other.
THEOREM NobodyHearsHimself == Spec => []NoEcho
<1>1. IInv => NoEcho
  BY DEF IInv, HeardInv, TypeInv, EchoInv, NoEcho
<1>2. QED BY <1>1, AlwaysInv, PTL

\* Until a thread has taken a wrong number, a slot is not given away while its
\* client is there: only the client's own thread frees it, when he has gone.
THEOREM SlotsBelongToClients == Spec => SlotsStand
<1> DEFINE Stand == ~mixed' /\ running' => \A s \in Slots :
              users'[s] # users[s] /\ users[s] # Free =>
                users'[s] = Free /\ peer[users[s]] \in {"closed", "broken"}
<1>1. IInv /\ [Next]_vars => [Stand]_vars
  <2> SUFFICES ASSUME IInv, Next, ~mixed', running', NEW s \in Slots,
                      users'[s] # users[s], users[s] # Free
               PROVE  users'[s] = Free /\ peer[users[s]] \in {"closed", "broken"}
    OBVIOUS
  <2> USE DEF IInv, HeardInv
  <2>1. CASE Acceptor
    BY <2>1 DEF Acceptor, Search, Announce, CreateThread
  <2>2. ASSUME NEW c \in Clients, Accept(c) PROVE FALSE
    <3>1. users[acceptor.i] = Free /\ users' = [users EXCEPT ![acceptor.i] = c]
      BY <2>2 DEF Accept, AcceptorInv
    <3>2. QED BY <3>1 DEF TypeInv
  <2>3. ASSUME NEW c \in Clients, Client(c) PROVE FALSE
    BY <2>3 DEF Client
  <2>4. ASSUME NEW c \in Clients, Thread(c)
        PROVE  users'[s] = Free /\ peer[users[s]] \in {"closed", "broken"}
    <3>1. Leave(c)
      BY <2>4 DEF Thread, TakeNumber, CallRecv, Receive, ReceiveNothing,
           ReceiveFails, SendTo, SkipSlot
    <3>2. ~mixed
      BY <3>1 DEF Leave
    <3>3. users[thread[c].my_nom] = c /\ peer[c] \in {"closed", "broken"}
      BY <3>1, <3>2 DEF Leave, ServeInv
    <3>4. users' = [users EXCEPT ![thread[c].my_nom] = Free]
      BY <3>1 DEF Leave
    <3>5. QED BY <3>3, <3>4 DEF TypeInv
  <2>5. CASE Stop \/ \E c \in Clients : SendBreaks(c)
    BY <2>5 DEF Stop, SendBreaks, End
  <2>6. QED BY <2>1, <2>2, <2>3, <2>4, <2>5 DEF Next
<1>2. Spec => []IInv /\ [][Next]_vars
  BY AlwaysInv, PTL DEF Spec
<1>3. QED BY <1>1, <1>2, PTL DEF SlotsStand

-----------------------------------------------------------------------------
(***************************************************************************)
(* The order of messages.  What d is told of c's messages has gone through *)
(* the connection of c and the buffer of c's thread, and everything in     *)
(* front is older than what comes behind.                                  *)
(***************************************************************************)

NotAbove(text, n) == \A k \in DOMAIN text : text[k] <= n

\* What c has sent is received in this order, and "exit" at the end.
QueueInv == \A c \in Clients : Rising(inbox[c]) /\ NotAbove(inbox[c], sent[c])

\* Nobody is told anything before he is in the table.
SilentInv == \A d \in Clients : peer[d] = "new" => outbox[d] = <<>>

\* What d has been told of c is older than what is still to be received of c.
ToldInv ==
  ~mixed => \A c, d \in Clients : \A k \in Told(d, c) :
    Before(outbox[d][k].text, inbox[c]) /\ NotAbove(outbox[d][k].text, sent[c])

\* What a thread sends is older than what it will receive, and newer than what
\* those have been told to whom it has still to send it.
BufferInv ==
  ~mixed => \A c \in Clients : thread[c].at = "send" =>
    /\ Rising(thread[c].buffer)
    /\ Before(thread[c].buffer, inbox[c])
    /\ NotAbove(thread[c].buffer, sent[c])
    /\ \A s \in Slots : s >= thread[c].i /\ users[s] # Free =>
         \A k \in Told(users[s], c) :
           Before(outbox[users[s]][k].text, thread[c].buffer)

OrderInv == QueueInv /\ SilentInv /\ ToldInv /\ BufferInv /\ InOrder

LEMMA InitOrder == Init => OrderInv
<1> SUFFICES ASSUME Init PROVE OrderInv
  OBVIOUS
<1> USE DEF Init
<1>1. \A c, d \in Clients : Told(d, c) = {}
  BY DEF Told
<1>2. QueueInv /\ SilentInv
  BY DEF QueueInv, SilentInv, Rising, NotAbove
<1>3. ToldInv /\ InOrder
  BY <1>1 DEF ToldInv, InOrder
<1>4. BufferInv
  BY DEF BufferInv, NoThread
<1>5. QED BY <1>2, <1>3, <1>4 DEF OrderInv

\* A step that moves no message: slots become free or go to clients who have
\* been told nothing, and a thread that goes on sending skips a slot at most.
LEMMA NothingMoves ==
  ASSUME TypeInv, OrderInv, UNCHANGED <<sent, inbox, outbox>>, mixed => mixed',
         \A d \in Clients : peer'[d] = "new" => peer[d] = "new",
         \A s \in Slots : \/ users'[s] = Free \/ users'[s] = users[s]
                          \/ users'[s] \in Clients /\ outbox[users'[s]] = <<>>,
         thread' \in [Clients -> ThreadState],
         \A c \in Clients : thread'[c].at = "send" =>
           /\ thread[c].at = "send" /\ thread'[c].buffer = thread[c].buffer
           /\ thread'[c].i >= thread[c].i
  PROVE  OrderInv'
<1> USE DEF OrderInv
<1>1. \A c, d : Told(d, c)' = Told(d, c)
  BY DEF Told
<1>2. QueueInv' /\ SilentInv'
  BY DEF QueueInv, SilentInv, Rising, NotAbove
<1>3. ToldInv'
  BY <1>1 DEF ToldInv, Before, NotAbove
<1>4. InOrder'
  BY <1>1 DEF InOrder, Before, Rising
<1>5. BufferInv'
  <2> SUFFICES ASSUME ~mixed', NEW c \in Clients, thread'[c].at = "send"
               PROVE  /\ Rising(thread[c].buffer)
                      /\ Before(thread[c].buffer, inbox[c])
                      /\ NotAbove(thread[c].buffer, sent[c])
                      /\ \A s \in Slots : s >= thread'[c].i /\ users'[s] # Free =>
                           \A k \in Told(users'[s], c) :
                             Before(outbox[users'[s]][k].text, thread[c].buffer)
    BY <1>1 DEF BufferInv, Rising, Before, NotAbove
  <2>1. /\ Rising(thread[c].buffer)
        /\ Before(thread[c].buffer, inbox[c])
        /\ NotAbove(thread[c].buffer, sent[c])
        /\ \A s \in Slots : s >= thread[c].i /\ users[s] # Free =>
             \A k \in Told(users[s], c) :
               Before(outbox[users[s]][k].text, thread[c].buffer)
    BY DEF BufferInv
  <2>2. SUFFICES ASSUME NEW s \in Slots, s >= thread'[c].i, users'[s] # Free,
                        NEW k \in Told(users'[s], c)
                 PROVE  Before(outbox[users'[s]][k].text, thread[c].buffer)
    BY <2>1
  <2>3. outbox[users'[s]] # <<>>
    BY DEF Told
  <2>4. users'[s] = users[s]
    BY <2>2, <2>3
  <2>5. s >= thread[c].i
    <3>1. thread[c].i \in Int /\ thread'[c].i \in Int /\ s \in Int
          /\ thread'[c].i >= thread[c].i
      BY DEF TypeInv, ThreadState, Slots
    <3>2. QED BY <2>2, <3>1
  <2>6. QED BY <2>1, <2>2, <2>4, <2>5
<1>6. QED BY <1>2, <1>3, <1>4, <1>5

\* What a client sends is newer than all that it has sent.
LEMMA ClientOrder ==
  ASSUME IInv, OrderInv, NEW c \in Clients, Client(c)
  PROVE  OrderInv'
<1> USE ClientsAssumption DEF IInv, HeardInv, OrderInv
<1>1. UNCHANGED <<outbox, running, users, new_user, acceptor, thread, mixed>>
  BY DEF Client, Send, SendExit, Quit, Close
<1>2. \A d \in Clients : peer'[d] = "new" => peer[d] = "new"
  BY DEF Client, Send, SendExit, Quit, Close, TypeInv
<1>3. CASE Quit(c)
  <2>1. UNCHANGED <<sent, inbox>>
    BY <1>3 DEF Quit
  <2>2. \A d \in Clients : thread[d].i >= thread[d].i
    BY DEF TypeInv, ThreadState, Slots
  <2>3. thread' \in [Clients -> ThreadState]
    BY <1>1 DEF TypeInv
  <2> HIDE DEF OrderInv
  <2>4. QED BY <1>1, <1>2, <2>1, <2>2, <2>3, NothingMoves
<1>4. CASE Send(c) \/ SendExit(c)
  <2> DEFINE n == IF Send(c) THEN sent[c] + 1 ELSE Exit
  <2>1. n \in Nat /\ sent[c] \in Nat /\ sent[c] < n
    <3>1. sent[c] \in Nat /\ Exit \in Nat
      BY DEF TypeInv
    <3>2. CASE Send(c)
      BY <3>1, <3>2
    <3>3. CASE ~Send(c)
      <4>1. peer[c] = "open"
        BY <1>4, <3>3 DEF SendExit, Close
      <4>2. sent[c] <= Sends[c] /\ Sends[c] < Exit /\ Sends[c] \in Nat
        BY <4>1 DEF ExitInv
      <4>3. QED BY <3>1, <3>3, <4>2
    <3>4. QED BY <3>2, <3>3
  <2>2. /\ sent' = [sent EXCEPT ![c] = n]
        /\ inbox' = [inbox EXCEPT ![c] = Append(@, n)]
    BY <1>4 DEF Send, SendExit
  <2> HIDE DEF n
  <2>3. /\ sent'[c] = n /\ inbox'[c] = Append(inbox[c], n)
        /\ inbox[c] \in Seq(Nat)
        /\ \A d \in Clients \ {c} : sent'[d] = sent[d] /\ inbox'[d] = inbox[d]
    BY <2>2 DEF TypeInv
  <2>4. ASSUME NEW text \in Seq(Nat), NotAbove(text, sent[c])
        PROVE  NotAbove(text, n)
    BY <2>1, <2>4 DEF NotAbove
  <2>5. ASSUME NEW text \in Seq(Nat), NotAbove(text, sent[c]), Before(text, inbox[c])
        PROVE  Before(text, inbox'[c])
    <3> SUFFICES ASSUME NEW j \in DOMAIN text, NEW k \in DOMAIN inbox'[c]
                 PROVE  text[j] < inbox'[c][k]
      BY DEF Before
    <3>1. CASE k \in DOMAIN inbox[c]
      BY <2>3, <2>5, <3>1 DEF Before
    <3>2. CASE k \notin DOMAIN inbox[c]
      <4>1. inbox'[c][k] = n
        BY <2>1, <2>3, <3>2
      <4>2. text[j] <= sent[c] /\ text[j] \in Nat
        BY <2>5 DEF NotAbove
      <4>3. QED BY <2>1, <4>1, <4>2
    <3>3. QED BY <3>1, <3>2
  <2>6. QueueInv'
    <3>1. \A k \in DOMAIN inbox'[c] :
            inbox'[c][k] = IF k \in DOMAIN inbox[c] THEN inbox[c][k] ELSE n
      BY <2>1, <2>3
    <3>2. \A j, k \in DOMAIN inbox'[c] : j < k => j \in DOMAIN inbox[c]
      BY <2>1, <2>3
    <3>3. \A k \in DOMAIN inbox[c] : inbox[c][k] <= sent[c] /\ inbox[c][k] \in Nat
      BY <2>3 DEF QueueInv, NotAbove
    <3>4. \A k \in DOMAIN inbox[c] : inbox[c][k] < n
      BY <2>1, <3>3
    <3>5. Rising(inbox'[c])
      BY <3>1, <3>2, <3>4 DEF QueueInv, Rising
    <3>6. NotAbove(inbox'[c], sent'[c])
      BY <2>1, <2>3, <3>1, <3>3, <3>4 DEF NotAbove
    <3>7. QED BY <2>3, <3>5, <3>6 DEF QueueInv
  <2>7. SilentInv'
    BY <1>1, <1>2 DEF SilentInv
  <2>8. \A d, e : Told(e, d)' = Told(e, d)
    BY <1>1 DEF Told
  <2>9. ToldInv'
    <3> SUFFICES ASSUME ~mixed, NEW d \in Clients, NEW e \in Clients,
                        NEW k \in Told(e, d)
                 PROVE  Before(outbox[e][k].text, inbox'[d])
                        /\ NotAbove(outbox[e][k].text, sent'[d])
      BY <1>1, <2>8 DEF ToldInv, Before, NotAbove
    <3>1. Before(outbox[e][k].text, inbox[d]) /\ NotAbove(outbox[e][k].text, sent[d])
      BY DEF ToldInv
    <3>2. outbox[e][k].text \in Seq(Nat)
      <4>1. outbox[e] \in Seq(Message) /\ k \in DOMAIN outbox[e]
        BY DEF Told, TypeInv
      <4>2. outbox[e][k] \in Message
        BY <4>1
      <4>3. QED BY <4>2 DEF Message
    <3>3. QED BY <2>3, <2>4, <2>5, <3>1, <3>2
  <2>10. BufferInv'
    <3> SUFFICES ASSUME ~mixed, NEW d \in Clients, thread[d].at = "send"
                 PROVE  /\ Rising(thread[d].buffer)
                        /\ Before(thread[d].buffer, inbox'[d])
                        /\ NotAbove(thread[d].buffer, sent'[d])
                        /\ \A s \in Slots : s >= thread[d].i /\ users[s] # Free =>
                             \A k \in Told(users[s], d) :
                               Before(outbox[users[s]][k].text, thread[d].buffer)
      BY <1>1, <2>8 DEF BufferInv, Rising, Before, NotAbove
    <3>1. /\ Rising(thread[d].buffer)
          /\ Before(thread[d].buffer, inbox[d])
          /\ NotAbove(thread[d].buffer, sent[d])
          /\ \A s \in Slots : s >= thread[d].i /\ users[s] # Free =>
               \A k \in Told(users[s], d) :
                 Before(outbox[users[s]][k].text, thread[d].buffer)
      BY DEF BufferInv
    <3>2. thread[d].buffer \in Seq(Nat)
      BY DEF TypeInv, ThreadState
    <3>3. QED BY <2>3, <2>4, <2>5, <3>1, <3>2
  <2>11. InOrder'
    BY <1>1, <2>8 DEF InOrder, Rising, Before
  <2>12. QED BY <2>6, <2>7, <2>9, <2>10, <2>11
<1>5. QED BY <1>3, <1>4 DEF Client

\* What a thread receives is cut off from the front of the connection.
LEMMA ReceiveOrder ==
  ASSUME IInv, OrderInv, NEW c \in Clients, Receive(c)
  PROVE  OrderInv'
<1> USE ClientsAssumption DEF IInv, HeardInv, OrderInv
<1> DEFINE from == thread[c].fd
<1>1. thread[c] \in ThreadState /\ thread[c].at = "blocked" /\ from \in Clients
  BY DEF Receive, TypeInv, ThreadState
<1>2. PICK n \in 1 .. Len(inbox[from]) :
        LET text == SubSeq(inbox[from], 1, n)
        IN /\ inbox' = [inbox EXCEPT ![from] = Left(@, n)]
           /\ thread' = [thread EXCEPT
                ![c].buffer = text,
                ![c].at = IF IsExit(text) THEN "leave" ELSE "send"]
  BY DEF Receive
<1> DEFINE text == SubSeq(inbox[from], 1, n)
           rest == SubSeq(inbox[from], n + 1, Len(inbox[from]))
<1>3. inbox[from] \in Seq(Nat) /\ n \in Nat /\ 1 <= n /\ n <= Len(inbox[from])
  BY <1>1 DEF TypeInv
<1>4. text \in Seq(Nat) /\ DOMAIN text = 1 .. n
      /\ \A k \in 1 .. n : text[k] = inbox[from][k] /\ k \in DOMAIN inbox[from]
  BY <1>3
<1>5. /\ rest \in Seq(Nat) /\ DOMAIN rest = 1 .. Len(inbox[from]) - n
      /\ \A k \in 1 .. Len(inbox[from]) - n :
           rest[k] = inbox[from][k + n] /\ k + n \in DOMAIN inbox[from]
  <2> HIDE DEF from
  <2>1. rest \in Seq(Nat) /\ Len(rest) = Len(inbox[from]) - n
    BY <1>3
  <2>2. \A k \in 1 .. Len(rest) : rest[k] = inbox[from][k + n]
    BY <1>3, <2>1
  <2>3. \A k \in 1 .. Len(inbox[from]) - n : k + n \in 1 .. Len(inbox[from])
    BY <1>3
  <2>4. DOMAIN rest = 1 .. Len(rest) /\ DOMAIN inbox[from] = 1 .. Len(inbox[from])
    BY <1>3, <2>1
  <2> HIDE DEF rest
  <2>5. QED BY <2>1, <2>2, <2>3, <2>4
<1>6. inbox'[from] = rest /\ \A d \in Clients \ {from} : inbox'[d] = inbox[d]
  <2>1. inbox' = [inbox EXCEPT ![from] = rest]
    BY <1>2 DEF Left
  <2> HIDE DEF rest, from
  <2>2. QED BY <1>1, <2>1 DEF TypeInv
<1>7. /\ thread'[c].buffer = text /\ thread'[c].i = thread[c].i
      /\ \A d \in Clients \ {c} : thread'[d] = thread[d]
  <2> HIDE DEF text, from
  <2>1. thread' = [thread EXCEPT
          ![c].buffer = text, ![c].at = IF IsExit(text) THEN "leave" ELSE "send"]
    BY <1>2 DEF text, from
  <2>2. QED BY <1>1, <2>1 DEF TypeInv, ThreadState
<1>8. UNCHANGED <<peer, sent, outbox, users, mixed>>
  BY DEF Receive
<1>9. ~mixed => from = c
  BY <1>1 DEF ServeInv
<1>10. Rising(inbox[from]) /\ NotAbove(inbox[from], sent[from])
  BY <1>1 DEF QueueInv
<1>11. Rising(text) /\ NotAbove(text, sent[from])
  <2> HIDE DEF text, from
  <2>1. QED BY <1>4, <1>10 DEF Rising, NotAbove
<1>12. Rising(rest) /\ NotAbove(rest, sent[from])
  <2>1. \A j, k \in 1 .. Len(inbox[from]) - n : j < k => j + n < k + n
    BY <1>3
  <2> HIDE DEF rest
  <2>2. QED BY <1>5, <1>10, <2>1 DEF Rising, NotAbove
<1>13. Before(text, rest)
  <2>1. \A j \in 1 .. n, k \in 1 .. Len(inbox[from]) - n : j < k + n
    BY <1>3
  <2> HIDE DEF text, rest
  <2>2. QED BY <1>4, <1>5, <1>10, <2>1 DEF Rising, Before
<1>14. ASSUME NEW older, Before(older, inbox[from])
       PROVE  Before(older, text) /\ Before(older, rest)
  <2> HIDE DEF text, rest
  <2>1. QED BY <1>4, <1>5, <1>14 DEF Before
<1> HIDE DEF text, rest, from
<1>15. QueueInv'
  BY <1>6, <1>8, <1>12 DEF QueueInv
<1>16. SilentInv'
  BY <1>8 DEF SilentInv
<1>17. \A d, e : Told(e, d)' = Told(e, d)
  BY <1>8 DEF Told
<1>18. InOrder'
  BY <1>8, <1>17 DEF InOrder, Rising, Before
<1>19. ToldInv'
  <2> SUFFICES ASSUME ~mixed, NEW d \in Clients, NEW e \in Clients,
                      NEW k \in Told(e, d)
               PROVE  Before(outbox[e][k].text, inbox'[d])
                      /\ NotAbove(outbox[e][k].text, sent[d])
    BY <1>8, <1>17 DEF ToldInv, Before, NotAbove
  <2>1. Before(outbox[e][k].text, inbox[d]) /\ NotAbove(outbox[e][k].text, sent[d])
    BY DEF ToldInv
  <2>2. QED BY <1>6, <1>14, <2>1
<1>20. BufferInv'
  <2> SUFFICES ASSUME ~mixed, NEW d \in Clients, thread'[d].at = "send"
               PROVE  /\ Rising(thread'[d].buffer)
                      /\ Before(thread'[d].buffer, inbox'[d])
                      /\ NotAbove(thread'[d].buffer, sent[d])
                      /\ \A s \in Slots : s >= thread'[d].i /\ users[s] # Free =>
                           \A k \in Told(users[s], d) :
                             Before(outbox[users[s]][k].text, thread'[d].buffer)
    BY <1>8, <1>17 DEF BufferInv, Rising, Before, NotAbove
  <2>1. CASE d = c
    <3>1. \A s \in Slots : users[s] # Free => users[s] \in Clients
      BY DEF TypeInv
    <3>2. \A s \in Slots : users[s] # Free =>
            \A k \in Told(users[s], c) : Before(outbox[users[s]][k].text, inbox[c])
      BY <3>1 DEF ToldInv
    <3>3. QED BY <1>6, <1>7, <1>9, <1>11, <1>13, <1>14, <2>1, <3>2
  <2>2. CASE d # c
    BY <1>6, <1>7, <1>9, <2>2 DEF BufferInv
  <2>3. QED BY <2>1, <2>2
<1>21. QED BY <1>15, <1>16, <1>18, <1>19, <1>20

\* A text is sent to a client only behind older ones, and he is in no other
\* slot in which he would be sent it again.
LEMMA SendToOrder ==
  ASSUME IInv, OrderInv, NEW c \in Clients, SendTo(c)
  PROVE  OrderInv'
<1> USE ClientsAssumption DEF IInv, HeardInv, OrderInv
<1>1. thread[c] \in ThreadState /\ thread[c].at = "send" /\ thread[c].i \in Slots
  BY DEF SendTo, TypeInv, ThreadState
<1>2. PICK to \in Clients : to = users[thread[c].i]
  BY <1>1 DEF SendTo, IsReceiver, TypeInv
<1>3. PICK from, text, message :
        /\ from = thread[c].fd /\ text = thread[c].buffer
        /\ message = [nom |-> thread[c].my_nom, from |-> from, text |-> text]
  OBVIOUS
<1>4. UNCHANGED <<sent, inbox, users, mixed>>
  BY DEF SendTo
<1>5. \A d \in Clients : peer'[d] = "new" => peer[d] = "new"
  BY <1>2 DEF SendTo, TypeInv
<1>6. PICK t : /\ Becomes(c, t) /\ t.my_nom = thread[c].my_nom
               /\ \/ /\ t.at = "send" /\ t.fd = thread[c].fd
                     /\ t.buffer = thread[c].buffer /\ t.i = thread[c].i + 1
                  \/ t.at = "recv" /\ t.fd = Free
  BY <1>1, NextReceiverBecomes DEF SendTo
<1>7. thread'[c] = t /\ \A d \in Clients \ {c} : thread'[d] = thread[d]
  BY <1>6 DEF Becomes, TypeInv
<1>8. ~mixed => from = c
  BY <1>1, <1>3 DEF ServeInv
<1>9. message.from = from /\ message.text = text
  BY <1>3
<1>10. peer[to] # "new"
  BY <1>1, <1>2 DEF TableInv
<1>11. /\ \A d \in Clients \ {to} : outbox'[d] = outbox[d]
       /\ outbox[to] \in Seq(Message)
       /\ outbox'[to] = Append(outbox[to], message)
  BY <1>2, <1>3 DEF SendTo, TypeInv
<1>12. PICK last \in Nat \ {0} :
         /\ DOMAIN outbox[to] = 1 .. last - 1
         /\ DOMAIN outbox'[to] = 1 .. last
         /\ \A k \in 1 .. last - 1 : outbox'[to][k] = outbox[to][k]
         /\ outbox'[to][last] = message
  <2> DEFINE last == Len(outbox[to]) + 1
  <2>1. /\ last \in Nat \ {0}
        /\ DOMAIN outbox[to] = 1 .. last - 1
        /\ DOMAIN outbox'[to] = 1 .. last
        /\ \A k \in 1 .. last - 1 : outbox'[to][k] = outbox[to][k]
        /\ outbox'[to][last] = message
    BY <1>11
  <2> HIDE DEF last
  <2>2. QED BY <2>1
<1>13. /\ \A d, e \in Clients : e # to \/ d # from => Told(e, d)' = Told(e, d)
       /\ Told(to, from)' = Told(to, from) \cup {last}
       /\ \A e, d \in Clients : \A k \in Told(e, d) : outbox'[e][k] = outbox[e][k]
       /\ \A k \in Told(to, from) : k \in Nat /\ k < last
  <2>1. 1 .. last = 1 .. last - 1 \cup {last} /\ last \notin 1 .. last - 1
        /\ \A k \in 1 .. last - 1 : k \in Nat /\ k < last
    BY <1>12
  <2>2. \A d, e \in Clients : e # to => Told(e, d)' = Told(e, d)
    BY <1>11 DEF Told
  <2>3. \A d : d # from => Told(to, d)' = Told(to, d)
    BY <1>9, <1>12, <2>1 DEF Told
  <2>4. Told(to, from)' = Told(to, from) \cup {last}
    BY <1>9, <1>12, <2>1 DEF Told
  <2>5. \A e, d \in Clients : \A k \in Told(e, d) : outbox'[e][k] = outbox[e][k]
    BY <1>11, <1>12, <2>1 DEF Told
  <2>6. \A k \in Told(to, from) : k \in Nat /\ k < last
    BY <1>12, <2>1 DEF Told
  <2>7. QED BY <1>2, <2>2, <2>3, <2>4, <2>5, <2>6
<1>14. ~mixed => /\ Rising(text) /\ Before(text, inbox[c]) /\ NotAbove(text, sent[c])
                 /\ \A k \in Told(to, c) : Before(outbox[to][k].text, text)
  <2>1. thread[c].i >= thread[c].i /\ to # Free
    BY <1>1, <1>2 DEF Slots
  <2>2. QED BY <1>1, <1>2, <1>3, <2>1 DEF BufferInv
<1>15. ASSUME ~mixed
       PROVE  /\ \A d, e \in Clients : e # to \/ d # c => Told(e, d)' = Told(e, d)
              /\ Told(to, c)' = Told(to, c) \cup {last}
              /\ outbox'[to][last].text = text
              /\ \A e, d \in Clients : \A k \in Told(e, d) : outbox'[e][k] = outbox[e][k]
              /\ \A k \in Told(to, c) : k < last /\ ~(last < k)
              /\ ~(last < last)
  <2>1. \A k \in Told(to, c) : k < last /\ k \in Nat
    BY <1>8, <1>13, <1>15
  <2>2. last \in Nat
    BY <1>12
  <2>3. (\A k \in Told(to, c) : ~(last < k)) /\ ~(last < last)
    BY <2>1, <2>2
  <2>4. QED BY <1>8, <1>9, <1>12, <1>13, <1>15, <2>1, <2>3
<1>16. QueueInv'
  BY <1>4 DEF QueueInv, Rising, NotAbove
<1>17. SilentInv'
  BY <1>5, <1>10, <1>11 DEF SilentInv
<1>18. ToldInv'
  <2> SUFFICES ASSUME ~mixed, NEW d \in Clients, NEW e \in Clients,
                      NEW k \in Told(e, d)'
               PROVE  Before(outbox'[e][k].text, inbox[d])
                      /\ NotAbove(outbox'[e][k].text, sent[d])
    BY <1>4 DEF ToldInv, Before, NotAbove
  <2>1. CASE k \in Told(e, d)
    <3>1. Before(outbox[e][k].text, inbox[d]) /\ NotAbove(outbox[e][k].text, sent[d])
      BY <2>1 DEF ToldInv
    <3>2. QED BY <1>15, <2>1, <3>1
  <2>2. CASE k \notin Told(e, d)
    <3>1. e = to /\ d = c /\ k = last
      BY <1>15, <2>2
    <3>2. QED BY <1>14, <1>15, <3>1
  <2>3. QED BY <2>1, <2>2
<1>19. InOrder'
  <2> SUFFICES ASSUME ~mixed, NEW d \in Clients, NEW e \in Clients,
                      NEW k \in Told(e, d)'
               PROVE  /\ Rising(outbox'[e][k].text)
                      /\ \A j \in Told(e, d)' :
                           j < k => Before(outbox'[e][j].text, outbox'[e][k].text)
    BY <1>4 DEF InOrder, Before, Rising
  <2>1. CASE k \in Told(e, d)
    <3>1. outbox'[e][k] = outbox[e][k] /\ Rising(outbox[e][k].text)
      BY <1>15, <2>1 DEF InOrder
    <3>2. \A j \in Told(e, d)' : j < k => j \in Told(e, d)
      BY <1>15, <2>1
    <3>3. \A j \in Told(e, d) :
            j < k => Before(outbox'[e][j].text, outbox'[e][k].text)
      BY <1>15, <2>1, <3>1 DEF InOrder
    <3>4. QED BY <3>1, <3>2, <3>3
  <2>2. CASE k \notin Told(e, d)
    <3>1. e = to /\ d = c /\ k = last
      BY <1>15, <2>2
    <3>2. \A j \in Told(e, d)' : j < k => j \in Told(to, c)
      BY <1>12, <1>15, <3>1
    <3>3. QED BY <1>14, <1>15, <3>1, <3>2
  <2>3. QED BY <2>1, <2>2
<1>20. BufferInv'
  <2> SUFFICES ASSUME ~mixed, NEW d \in Clients, thread'[d].at = "send"
               PROVE  /\ Rising(thread'[d].buffer)
                      /\ Before(thread'[d].buffer, inbox[d])
                      /\ NotAbove(thread'[d].buffer, sent[d])
                      /\ \A s \in Slots : s >= thread'[d].i /\ users[s] # Free =>
                           \A e \in Clients : e = users[s] => \A k \in Told(e, d)' :
                             Before(outbox'[e][k].text, thread'[d].buffer)
    <3>1. \A s \in Slots : users[s] # Free => users[s] \in Clients
      BY DEF TypeInv
    <3>2. QED BY <1>4, <3>1 DEF BufferInv, Rising, Before, NotAbove
  <2>1. /\ thread[d].at = "send" /\ thread'[d].buffer = thread[d].buffer
        /\ thread'[d].i = IF d = c THEN thread[d].i + 1 ELSE thread[d].i
    BY <1>1, <1>6, <1>7
  <2>2. /\ Rising(thread[d].buffer)
        /\ Before(thread[d].buffer, inbox[d])
        /\ NotAbove(thread[d].buffer, sent[d])
        /\ \A s \in Slots : s >= thread[d].i /\ users[s] # Free =>
             \A k \in Told(users[s], d) :
               Before(outbox[users[s]][k].text, thread[d].buffer)
    BY <2>1 DEF BufferInv
  <2>3. ASSUME NEW s \in Slots, s >= thread'[d].i, users[s] # Free,
               NEW e \in Clients, e = users[s], NEW k \in Told(e, d)'
        PROVE  Before(outbox'[e][k].text, thread[d].buffer)
    <3>1. thread[d].i \in Int /\ s \in Int
      BY DEF TypeInv, ThreadState, Slots
    <3>2. s >= thread[d].i /\ (d = c => s # thread[c].i)
      BY <2>1, <2>3, <3>1
    <3>3. d = c => e # to
      BY <1>1, <1>2, <2>3, <3>2 DEF TableInv
    <3>4. k \in Told(e, d)
      BY <1>15, <2>3, <3>3
    <3>5. Before(outbox[e][k].text, thread[d].buffer)
      BY <2>2, <2>3, <3>2, <3>4
    <3>6. QED BY <1>15, <3>4, <3>5
  <2>4. QED BY <2>1, <2>2, <2>3
<1>21. QED BY <1>16, <1>17, <1>18, <1>19, <1>20

\* The other steps of a thread, of the accepting thread and of the process.
LEMMA RestOrder ==
  ASSUME IInv, IInv', OrderInv,
         \/ Acceptor \/ End
         \/ \E c \in Clients :
              \/ Accept(c) \/ TakeNumber(c) \/ CallRecv(c) \/ ReceiveNothing(c)
              \/ ReceiveFails(c) \/ Leave(c) \/ SkipSlot(c)
  PROVE  OrderInv'
<1> USE DEF IInv, HeardInv
<1>1. TypeInv /\ thread' \in [Clients -> ThreadState]
      /\ \A c \in Clients : thread[c].i \in Int /\ thread[c].i + 1 \in Int
           /\ thread[c].i >= thread[c].i /\ thread[c].i + 1 >= thread[c].i
  <2>1. \A i \in Slots : i \in Int /\ i + 1 \in Int /\ i >= i /\ i + 1 >= i
    BY DEF Slots
  <2>2. \A c \in Clients : thread[c].i \in Slots
    BY DEF TypeInv, ThreadState
  <2>3. TypeInv /\ thread' \in [Clients -> ThreadState]
    BY DEF TypeInv
  <2>4. QED BY <2>1, <2>2, <2>3
<1>2. CASE Acceptor
  <2>1. UNCHANGED <<peer, sent, inbox, outbox, users, mixed>>
    BY <1>2 DEF Acceptor, Search, Announce, CreateThread, network
  <2>2. \A c \in Clients : thread'[c].at = "send" => thread'[c] = thread[c]
    <3>1. CASE Search \/ Announce
      BY <3>1 DEF Search, Announce
    <3>2. CASE CreateThread
      <4>1. thread' = [thread EXCEPT ![acceptor.accepted].at = "begin"]
        BY <3>2 DEF CreateThread
      <4>2. \A c \in Clients : thread[c] \in ThreadState
        BY <1>1 DEF TypeInv
      <4>3. ASSUME NEW c \in Clients PROVE thread'[c].at = "send" => thread'[c] = thread[c]
        <5>1. CASE c = acceptor.accepted
          BY <1>1, <4>1, <4>2, <5>1 DEF TypeInv, ThreadState
        <5>2. CASE c # acceptor.accepted
          BY <1>1, <4>1, <5>2 DEF TypeInv
        <5>3. QED BY <5>1, <5>2
      <4>4. QED BY <4>3
    <3>3. QED BY <1>2, <3>1, <3>2 DEF Acceptor
  <2> HIDE DEF IInv, HeardInv
  <2>3. QED BY <1>1, <2>1, <2>2, NothingMoves
<1>3. CASE End
  <2>1. UNCHANGED <<peer, sent, inbox, outbox, mixed>>
    BY <1>3 DEF End, network
  <2>2. \A s \in Slots : users'[s] = Free
    BY <1>3 DEF End
  <2>3. \A c \in Clients : thread'[c].at # "send"
    BY <1>3 DEF End, NoThread
  <2> HIDE DEF IInv, HeardInv
  <2>4. QED BY <1>1, <2>1, <2>2, <2>3, NothingMoves
<1>4. ASSUME NEW c \in Clients, Accept(c) PROVE OrderInv'
  <2>1. UNCHANGED <<sent, inbox, outbox, thread, mixed>>
    BY <1>4 DEF Accept
  <2>2. \A d \in Clients : peer'[d] = "new" => peer[d] = "new"
    BY <1>4 DEF Accept, TypeInv
  <2>3. outbox[c] = <<>>
    BY <1>4 DEF Accept, OrderInv, SilentInv
  <2>4. \A s \in Slots : \/ users'[s] = users[s]
                         \/ users'[s] = c /\ outbox[users'[s]] = <<>>
    BY <1>4, <2>3 DEF Accept, TypeInv
  <2> HIDE DEF IInv, HeardInv
  <2>5. QED BY <1>1, <2>1, <2>2, <2>4, NothingMoves
<1>5. ASSUME NEW c \in Clients, TakeNumber(c) \/ CallRecv(c) PROVE OrderInv'
  <2>1. UNCHANGED <<peer, sent, inbox, outbox, users>> /\ (mixed => mixed')
    BY <1>5 DEF TakeNumber, CallRecv, network, TypeInv
  <2>2. PICK t : thread' = [thread EXCEPT ![c] = t] /\ t.at # "send"
    <3>1. thread[c] \in ThreadState
      BY <1>1 DEF TypeInv
    <3>2. CASE TakeNumber(c)
      <4> DEFINE t == [thread[c] EXCEPT !.at = "recv", !.my_nom = new_user]
      <4>1. t.at # "send"
        BY <3>1 DEF ThreadState
      <4>2. thread' = [thread EXCEPT ![c] = t]
        BY <3>2 DEF TakeNumber
      <4> HIDE DEF t
      <4>3. QED BY <4>1, <4>2
    <3>3. CASE CallRecv(c)
      <4> DEFINE t == [thread[c] EXCEPT !.at = "blocked",
                                        !.fd = users[thread[c].my_nom]]
      <4>1. t.at # "send"
        BY <3>1 DEF ThreadState
      <4>2. thread' = [thread EXCEPT ![c] = t]
        BY <3>3 DEF CallRecv
      <4> HIDE DEF t
      <4>3. QED BY <4>1, <4>2
    <3>4. QED BY <1>5, <3>2, <3>3
  <2>3. thread'[c] = t /\ \A d \in Clients \ {c} : thread'[d] = thread[d]
    BY <1>1, <2>2 DEF TypeInv
  <2> HIDE DEF IInv, HeardInv
  <2>4. QED BY <1>1, <2>1, <2>2, <2>3, NothingMoves
<1>6. ASSUME NEW c \in Clients, ReceiveNothing(c) \/ ReceiveFails(c) \/ Leave(c)
      PROVE  OrderInv'
  <2>1. UNCHANGED <<peer, sent, inbox, outbox, mixed>>
    BY <1>6 DEF ReceiveNothing, ReceiveFails, Leave, network
  <2>2. \A s \in Slots : users'[s] = Free \/ users'[s] = users[s]
    BY <1>6 DEF ReceiveNothing, ReceiveFails, Leave, TypeInv, ThreadState
  <2>3. PICK s \in {"recv", "leave", "ended"} : Goto(c, s)
    BY <1>6 DEF ReceiveNothing, ReceiveFails, Leave
  <2>4. PICK t : Becomes(c, t) /\ t.at = s
    BY <2>3, GotoBecomes
  <2>5. thread'[c] = t /\ \A d \in Clients \ {c} : thread'[d] = thread[d]
    BY <1>1, <2>4 DEF Becomes, TypeInv
  <2>6. t.at # "send"
    BY <2>3, <2>4
  <2> HIDE DEF IInv, HeardInv
  <2>7. QED BY <1>1, <2>1, <2>2, <2>5, <2>6, NothingMoves
<1>7. ASSUME NEW c \in Clients, SkipSlot(c) PROVE OrderInv'
  <2>1. UNCHANGED <<peer, sent, inbox, outbox, users, mixed>>
    BY <1>7 DEF SkipSlot, network
  <2>2. PICK t : /\ Becomes(c, t)
                 /\ \/ t.buffer = thread[c].buffer /\ t.i = thread[c].i + 1
                    \/ t.at = "recv"
    BY <1>7, NextReceiverBecomes DEF SkipSlot
  <2>3. thread'[c] = t /\ \A d \in Clients \ {c} : thread'[d] = thread[d]
    BY <2>2 DEF Becomes, TypeInv
  <2>4. thread[c].at = "send"
    BY <1>7 DEF SkipSlot
  <2> HIDE DEF IInv, HeardInv
  <2>5. QED BY <1>1, <2>1, <2>2, <2>3, <2>4, NothingMoves
<1>8. QED BY <1>2, <1>3, <1>4, <1>5, <1>6, <1>7

LEMMA StepOrder == IInv /\ IInv' /\ OrderInv /\ [Next]_vars => OrderInv'
<1> SUFFICES ASSUME IInv, IInv', OrderInv, [Next]_vars PROVE OrderInv'
  OBVIOUS
<1>1. CASE Acceptor
  BY <1>1, RestOrder
<1>2. ASSUME NEW c \in Clients, Accept(c) \/ Client(c) PROVE OrderInv'
  BY <1>2, RestOrder, ClientOrder
<1>3. ASSUME NEW c \in Clients, Thread(c) PROVE OrderInv'
  BY <1>3, RestOrder, ReceiveOrder, SendToOrder DEF Thread
<1>4. CASE Stop \/ \E c \in Clients : SendBreaks(c)
  BY <1>4, RestOrder DEF Stop, SendBreaks
<1>5. CASE UNCHANGED vars
  <2>1. \A d, e : Told(e, d)' = Told(e, d)
    BY <1>5 DEF vars, network, Told
  <2>2. UNCHANGED <<peer, sent, inbox, outbox, users, thread, mixed>>
    BY <1>5 DEF vars, network
  <2>3. QED BY <2>1, <2>2 DEF OrderInv, QueueInv, SilentInv, ToldInv, BufferInv,
          InOrder, Rising, NotAbove, Before
<1>6. QED BY <1>1, <1>2, <1>3, <1>4, <1>5 DEF Next

\* Until a thread has taken a wrong number, a client hears the messages of
\* another one in the order in which they were sent, and none twice: recv takes
\* them from the front of the connection, and send_all has sent one to every
\* slot, each client being in one, before the thread receives the next.
THEOREM MessagesStayInOrder == Spec => []InOrder
<1>1. OrderInv => InOrder
  BY DEF OrderInv
<1>2. Spec => []IInv /\ [][Next]_vars
  BY AlwaysInv, PTL DEF Spec
<1>3. Init => OrderInv
  BY InitOrder
<1>4. IInv /\ IInv' /\ OrderInv /\ [Next]_vars => OrderInv'
  BY StepOrder
<1>5. QED BY <1>1, <1>2, <1>3, <1>4, PTL DEF Spec

=============================================================================
