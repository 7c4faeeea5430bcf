---------------------------- MODULE ServerEvents ----------------------------
(***************************************************************************)
(* The server-sent events that tell users what became of their operations: *)
(* SSEManager keeps one client per BAN wallet, the routes open and close   *)
(* connections in any order, and the listener of the queue sends the       *)
(* result of a completed job to the client of its wallet, or to everybody  *)
(* if the result names no wallet (gasless swaps).  Nothing is kept for     *)
(* users who are not connected.                                            *)
(***************************************************************************)
EXTENDS Integers, FiniteSets

CONSTANTS
  Connection,   \* the connections browsers make
  Wallet,       \* BAN wallets
  WalletOf,     \* the wallet in the path of each connection's request
  Result,       \* results of jobs: [id, banWallet]
  NoWallet,     \* the banWallet of a result that names none
  NoClient      \* a wallet has no entry in the map

ASSUME ServerEventsAssumption ==
  /\ WalletOf \in [Connection -> Wallet]
  /\ \A r \in Result : r.banWallet \in Wallet \cup {NoWallet}
  /\ NoWallet \notin Wallet /\ NoClient \notin Connection

VARIABLES
  clients,    \* SSEManager.clients
  state,      \* the state of each connection
  sent,       \* history: the connections each result was sent to
  completed,  \* jobs that have completed
  newest,     \* history: the last connection each wallet opened
  cutOff      \* history: connections open while another of their wallet closed

vars == <<clients, state, sent, completed, newest, cutOff>>

Init ==
  /\ clients = [w \in Wallet |-> NoClient]
  /\ state = [c \in Connection |-> "none"]
  /\ sent = [r \in Result |-> {}]
  /\ completed = {}
  /\ newest = [w \in Wallet |-> NoClient]
  /\ cutOff = {}

(* Mutant: the first client of a wallet stays.                             *)
open_KeepsFirst(c) ==
  /\ state[c] = "none"
  /\ state' = [state EXCEPT ![c] = "open"]
  /\ clients' = [clients EXCEPT ![WalletOf[c]] = IF @ = NoClient THEN c ELSE @]
  /\ newest' = [newest EXCEPT ![WalletOf[c]] = c]
  /\ UNCHANGED <<sent, completed, cutOff>>

(* GET /events/:ban_wallet.                                                *)
open(c) ==
  /\ state[c] = "none"
  /\ state' = [state EXCEPT ![c] = "open"]
  /\ clients' = [clients EXCEPT ![WalletOf[c]] = c]
  /\ newest' = [newest EXCEPT ![WalletOf[c]] = c]
  /\ UNCHANGED <<sent, completed, cutOff>>

Others(c) == {d \in Connection \ {c} : WalletOf[d] = WalletOf[c] /\ state[d] = "open"}

(* Mutant: nobody listens to the close of a connection.                    *)
close_NotHeard(c) ==
  /\ state[c] = "open"
  /\ state' = [state EXCEPT ![c] = "closed"]
  /\ cutOff' = cutOff \cup Others(c)
  /\ UNCHANGED <<clients, sent, completed, newest>>

(* A connection closes: the client of its wallet is deleted, whichever     *)
(* connection that is.                                                     *)
close(c) ==
  /\ state[c] = "open"
  /\ state' = [state EXCEPT ![c] = "closed"]
  /\ clients' = [clients EXCEPT ![WalletOf[c]] = NoClient]
  /\ cutOff' = cutOff \cup Others(c)
  /\ UNCHANGED <<sent, completed, newest>>

(* Mutant: the wallet is not known to have a client.                       *)
unicast_Unchecked(w) == {clients[w]}

unicast(w) == {clients[w]} \ {NoClient}

(* Mutant: a result without a wallet goes to nobody.                       *)
Recipients_OneOrNone(r) == IF r.banWallet = NoWallet THEN {} ELSE unicast(r.banWallet)

(* unicast, or broadcast.                                                  *)
Recipients(r) ==
  IF r.banWallet = NoWallet THEN UNION {unicast(w) : w \in Wallet}
  ELSE unicast(r.banWallet)

(* A job completes once.                                                   *)
onJobCompleted(r) ==
  /\ r \notin completed
  /\ completed' = completed \cup {r}
  /\ sent' = [sent EXCEPT ![r] = Recipients(r)]
  /\ UNCHANGED <<clients, state, newest, cutOff>>

Next ==
  \/ \E c \in Connection : open(c) \/ close(c)
  \/ \E r \in Result : onJobCompleted(r)

Spec == Init /\ [][Next]_vars

-----------------------------------------------------------------------------
(* Types of all variables.                                                 *)
TypeOK ==
  /\ clients \in [Wallet -> Connection \cup {NoClient}]
  /\ state \in [Connection -> {"none", "open", "closed"}]
  /\ sent \in [Result -> SUBSET Connection]
  /\ completed \subseteq Result
  /\ newest \in [Wallet -> Connection \cup {NoClient}]
  /\ cutOff \subseteq Connection

(* No client is left behind by a connection that closed or was replaced.   *)
ClientsAreOpen ==
  \A w \in Wallet :
    clients[w] # NoClient => clients[w] = newest[w] /\ state[clients[w]] = "open"

(* The last connection a wallet opened is its client until it closes:      *)
(* only the close of an older one, which comes late when a page is loaded  *)
(* again, cuts it off.                                                     *)
IsServed(w) ==
  /\ newest[w] # NoClient
  /\ state[newest[w]] = "open"
  /\ newest[w] \notin cutOff

NewestIsClient == \A w \in Wallet : IsServed(w) => clients[w] = newest[w]

(* A result is sent to the last connection of its wallet, or of each       *)
(* wallet if it names none, and to no other wallet's.                      *)
ResultsReachNewest ==
  [][\A r \in completed' \ completed, w \in Wallet :
       /\ IsServed(w) /\ r.banWallet \in {w, NoWallet} => newest[w] \in sent'[r]
       /\ r.banWallet \notin {w, NoWallet} => \A c \in sent'[r] : WalletOf[c] # w]_vars

-----------------------------------------------------------------------------
(* The inductive invariant behind these: the last connection of a wallet   *)
(* is one of its own and was opened.                                       *)
NewestWasOpened ==
  \A w \in Wallet :
    newest[w] # NoClient => WalletOf[newest[w]] = w /\ state[newest[w]] # "none"

IInv ==
  /\ TypeOK
  /\ ClientsAreOpen
  /\ NewestIsClient
  /\ NewestWasOpened
=============================================================================
