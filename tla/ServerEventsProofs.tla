------------------------- MODULE ServerEventsProofs -------------------------
(* Theorems about ServerEvents: for any connections, wallets and results,  *)
(* the client of a wallet is its last connection, and results reach it.    *)
EXTENDS ServerEvents, TLAPS

LEMMA InitInv == Init => IInv
  BY DEF Init, IInv, TypeOK, ClientsAreOpen, NewestIsClient, IsServed, NewestWasOpened

LEMMA OpenInv ==
  ASSUME IInv, NEW c \in Connection, open(c)
  PROVE  IInv'
<1> DEFINE u == WalletOf[c]
<1>1. u \in Wallet /\ c # NoClient
  BY ServerEventsAssumption
<1>2. TypeOK
  BY DEF IInv
<1>3. /\ state[c] = "none" /\ state'[c] = "open"
      /\ clients'[u] = c /\ newest'[u] = c
      /\ \A w \in Wallet \ {u} : clients'[w] = clients[w] /\ newest'[w] = newest[w]
      /\ \A d \in Connection \ {c} : state'[d] = state[d]
      /\ cutOff' = cutOff
  BY <1>1, <1>2 DEF open, TypeOK
<1>4. TypeOK'
  BY <1>1, <1>2 DEF open, TypeOK
<1>5. \A w \in Wallet \ {u} : newest[w] # c /\ clients[w] # c
  BY <1>1, <1>3 DEF IInv, NewestWasOpened, ClientsAreOpen
<1> HIDE DEF u
<1>6. ClientsAreOpen'
  BY <1>1, <1>2, <1>3, <1>5 DEF IInv, TypeOK, ClientsAreOpen
<1>7. NewestIsClient'
  BY <1>1, <1>2, <1>3, <1>5 DEF IInv, TypeOK, NewestIsClient, IsServed
<1>8. NewestWasOpened'
  BY <1>1, <1>2, <1>3, <1>5 DEF u, IInv, TypeOK, NewestWasOpened
<1> QED
  BY <1>4, <1>6, <1>7, <1>8 DEF IInv

LEMMA CloseInv ==
  ASSUME IInv, NEW c \in Connection, close(c)
  PROVE  IInv'
<1> DEFINE u == WalletOf[c]
<1>1. u \in Wallet
  BY ServerEventsAssumption
<1>2. TypeOK
  BY DEF IInv
<1>3. /\ state'[c] = "closed" /\ clients'[u] = NoClient /\ newest' = newest
      /\ \A w \in Wallet \ {u} : clients'[w] = clients[w]
      /\ \A d \in Connection \ {c} : state'[d] = state[d]
      /\ cutOff' = cutOff \cup Others(c)
  BY <1>1, <1>2 DEF close, TypeOK
<1>4. TypeOK'
  BY <1>1, <1>2 DEF close, TypeOK, Others
<1>5. \A w \in Wallet \ {u} : newest[w] # c
  BY ServerEventsAssumption DEF IInv, NewestWasOpened
<1>6. ClientsAreOpen'
  BY <1>1, <1>2, <1>3, <1>5 DEF IInv, TypeOK, ClientsAreOpen
<1>7. NewestIsClient'
  <2> SUFFICES ASSUME NEW w \in Wallet, IsServed(w)'
               PROVE  clients'[w] = newest'[w]
    BY DEF NewestIsClient
  <2>1. newest[w] \in Connection \ {c} /\ state[newest[w]] = "open" /\ newest[w] \notin cutOff
    BY <1>2, <1>3 DEF IsServed, TypeOK
  <2>2. CASE w = u
    <3>1. WalletOf[newest[w]] = u
      BY <1>1, <2>1, <2>2, ServerEventsAssumption DEF IInv, NewestWasOpened
    <3>2. newest[w] \in Others(c)
      BY <2>1, <3>1 DEF Others
    <3> QED
      BY <1>3, <3>2 DEF IsServed
  <2>3. CASE w # u
    BY <1>3, <2>1, <2>3, ServerEventsAssumption DEF IInv, NewestIsClient, IsServed
  <2> QED
    BY <2>2, <2>3
<1>8. NewestWasOpened'
  BY <1>1, <1>2, <1>3 DEF IInv, TypeOK, NewestWasOpened
<1> QED
  BY <1>4, <1>6, <1>7, <1>8 DEF IInv

LEMMA CompletedInv ==
  ASSUME IInv, NEW r \in Result, onJobCompleted(r)
  PROVE  IInv'
<1>1. Recipients(r) \subseteq Connection
  BY ServerEventsAssumption DEF IInv, TypeOK, Recipients, unicast
<1>2. TypeOK'
  BY <1>1 DEF IInv, TypeOK, onJobCompleted
<1> QED
  BY <1>2 DEF IInv, onJobCompleted, ClientsAreOpen, NewestIsClient, IsServed, NewestWasOpened

LEMMA StepInv == IInv /\ [Next]_vars => IInv'
<1> SUFFICES ASSUME IInv, [Next]_vars PROVE IInv'
  OBVIOUS
<1>1. CASE UNCHANGED vars
  BY <1>1 DEF vars, IInv, TypeOK, ClientsAreOpen, NewestIsClient, IsServed, NewestWasOpened
<1> QED
  BY <1>1, OpenInv, CloseInv, CompletedInv DEF Next

(* IInv holds in every state of every behavior.                            *)
THEOREM Inductive == Spec => []IInv
  BY InitInv, StepInv, PTL DEF Spec

(* Types of all variables.                                                 *)
THEOREM TypeCorrect == Spec => []TypeOK
<1>1. IInv => TypeOK
  BY DEF IInv
<1> QED
  BY <1>1, Inductive, PTL

(* SSEManager keeps no client whose connection has closed or was replaced. *)
THEOREM NoClientIsLeft == Spec => []ClientsAreOpen
<1>1. IInv => ClientsAreOpen
  BY DEF IInv
<1> QED
  BY <1>1, Inductive, PTL

(* The last connection of a wallet is its client, unless an older one      *)
(* closed after it opened.                                                 *)
THEOREM NewestIsKept == Spec => []NewestIsClient
<1>1. IInv => NewestIsClient
  BY DEF IInv
<1> QED
  BY <1>1, Inductive, PTL

(* A result reaches the last connections of those it is for and nobody     *)
(* else's.                                                                 *)
THEOREM ResultsAreSent == Spec => ResultsReachNewest
<1> DEFINE A == \A r \in completed' \ completed, w \in Wallet :
       /\ IsServed(w) /\ r.banWallet \in {w, NoWallet} => newest[w] \in sent'[r]
       /\ r.banWallet \notin {w, NoWallet} => \A c \in sent'[r] : WalletOf[c] # w
<1>1. ASSUME IInv, Next PROVE A
  <2>1. CASE \E c \in Connection : open(c) \/ close(c)
    BY <2>1 DEF open, close
  <2>2. ASSUME NEW r \in Result, onJobCompleted(r)
        PROVE  A
    <3>1. completed' \ completed = {r} /\ sent'[r] = Recipients(r)
      BY <1>1, <2>2 DEF IInv, TypeOK, onJobCompleted
    <3>2. \A w \in Wallet : IsServed(w) => newest[w] \in unicast(w)
      BY <1>1 DEF IInv, NewestIsClient, IsServed, unicast
    <3>3. \A w \in Wallet : \A c \in unicast(w) : WalletOf[c] = w
      BY <1>1, ServerEventsAssumption DEF IInv, TypeOK, ClientsAreOpen, NewestWasOpened, unicast
    <3>4. r.banWallet \in Wallet \cup {NoWallet} /\ NoWallet \notin Wallet
      BY ServerEventsAssumption
    <3> QED
      BY <3>1, <3>2, <3>3, <3>4 DEF Recipients
  <2> QED
    BY <1>1, <2>1, <2>2 DEF Next
<1>2. IInv /\ [Next]_vars => [A]_vars
  BY <1>1
<1> QED
  BY <1>2, Inductive, PTL DEF Spec, ResultsReachNewest
=============================================================================
