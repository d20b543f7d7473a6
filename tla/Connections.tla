----------------------------- MODULE Connections ----------------------------
(***************************************************************************)
(* Connections of the machine API: how a key is paired, used, replaced and *)
(* revoked, and how each signed request is accepted.                       *)
(*                                                                         *)
(* The tables connections (row) and nonces (nonces) are shared by handlers *)
(* on the event loop, which give way only while they wait for a body, by   *)
(* handlers in threads (pairing codes, revocations, the list), which give  *)
(* way anywhere, and by the command line of local modules.  Every use of   *)
(* the ingest tables may run the janitor.  Clients sign with clocks of     *)
(* their own, and the network may deliver a request late and repeatedly.   *)
(* The names say that they are about connections, so that one module can   *)
(* extend this one and another.                                            *)
(***************************************************************************)
EXTENDS Naturals

CONSTANTS
    Paired,      \* connections of remote clients, made by pairing
    Local,       \* connections of local modules, made by module_api
    Message,     \* signed requests, each with a nonce of its own
    Request,     \* deliveries being handled
    Pairer,      \* POST /api/ingest/pair requests being handled
    NoMessage,   \* not yet signed; the request slot is free
    NoConn,      \* the pairer is waiting for nothing
    Skew,        \* CLOCK_SKEW
    NonceTTL,    \* NONCE_TTL
    PairingTTL,  \* PAIRING_TTL
    MaxTime,     \* bound: last value of the clock
    MaxKeys      \* bound: keys a connection has over time

Connection == Paired \cup Local
Time == 1 .. MaxTime
Signed == [conn : Connection, key : 1 .. MaxKeys, ts : Time]

\* A nonce is kept for the whole window in which its request is accepted.
ASSUME LifetimeAssumption ==
    /\ Paired \cap Local = {}
    /\ NoConn \notin Connection
    /\ NoMessage \notin Message /\ NoMessage \notin Signed
    /\ Skew \in Nat /\ NonceTTL \in Nat /\ PairingTTL \in Nat
    /\ NonceTTL >= 2 * Skew
    /\ MaxTime \in Nat \ {0} /\ MaxKeys \in Nat \ {0}

VARIABLES
    clock,     \* the cockpit's time
    row,       \* table connections
    nonces,    \* table nonces
    keys,      \* keys made for a connection so far; the last is the newest
    sent,      \* the request a message is
    handled,   \* what a delivery carries and how far it is
    pairing,   \* the row a pairer has found usable
    taken      \* history: acceptances of a message in its window, under the
               \* key the connection has

connectionVars == <<clock, row, nonces, keys, sent, handled, pairing, taken>>

NoKey == 0
Row == [status : {"none", "pending", "active", "expired", "revoked"},
        key : 0 .. MaxKeys, expires : 0 .. MaxTime + PairingTTL]
Nonce == [msg : Message, at : Time]
Handled == [step : {"idle", "found", "verified"}, msg : Message \cup {NoMessage},
            key : 0 .. MaxKeys]
NoDelivery == [step |-> "idle", msg |-> NoMessage, key |-> NoKey]

ConnectionTypeOK ==
    /\ clock \in Time
    /\ row \in [Connection -> Row]
    /\ nonces \subseteq Nonce
    /\ keys \in [Connection -> 0 .. MaxKeys]
    /\ sent \in [Message -> Signed \cup {NoMessage}]
    /\ handled \in [Request -> Handled]
    /\ pairing \in [Pairer -> Paired \cup {NoConn}]
    /\ taken \in [Message -> Nat]

ConnectionInit ==
    /\ clock = 1
    /\ row = [c \in Connection |-> [status |-> "none", key |-> NoKey, expires |-> 0]]
    /\ nonces = {}
    /\ keys = [c \in Connection |-> 0]
    /\ sent = [m \in Message |-> NoMessage]
    /\ handled = [r \in Request |-> NoDelivery]
    /\ pairing = [p \in Pairer |-> NoConn]
    /\ taken = [m \in Message |-> 0]

-----------------------------------------------------------------------------
(* Rows *)

\* Mutant: the time to live is taken for milliseconds.
ExpiresInMilliseconds == clock + 1000 * PairingTTL
NewExpiry == clock + PairingTTL

\* A connection becomes active with a key it never had.
Activate(c) ==
    /\ keys[c] < MaxKeys
    /\ keys' = [keys EXCEPT ![c] = @ + 1]
    /\ row' = [row EXCEPT ![c] =
                   [status |-> "active", key |-> keys[c] + 1, expires |-> 0]]

Revoked(c) == [row[c] EXCEPT !.status = "revoked", !.key = NoKey]
NoncesOf(c) == {n \in nonces : sent[n.msg].conn = c}

\* Mutant: a nonce lives as long as the clock may differ.
OlderThanSkew(n) == n.at + Skew < clock
Outdated(n) == n.at + NonceTTL < clock
Overdue(c) == row[c].status = "pending" /\ row[c].expires < clock

\* Mutant: the handlers give way between their last check and their write.
LoopAlwaysFree == TRUE
\* Handlers on the event loop do not give way between check and write.
LoopFree ==
    /\ \A p \in Pairer : pairing[p] = NoConn
    /\ \A r \in Request : handled[r].step # "verified"

-----------------------------------------------------------------------------
(* Pairing, module credentials, revocation *)

CreatePairing(c) ==
    /\ row[c].status = "none"
    /\ row' = [row EXCEPT ![c] = [status |-> "pending", key |-> NoKey, expires |-> NewExpiry]]
    /\ UNCHANGED <<clock, nonces, keys, sent, handled, pairing, taken>>

PairFinds(p, c) ==
    /\ LoopFree
    /\ row[c].status = "pending" /\ ~Overdue(c)
    /\ pairing' = [pairing EXCEPT ![p] = c]
    /\ UNCHANGED <<clock, row, nonces, keys, sent, handled, taken>>

\* The row is updated by its id: its status is not looked at again.
PairWrites(p) ==
    /\ pairing[p] # NoConn
    /\ Activate(pairing[p])
    /\ pairing' = [pairing EXCEPT ![p] = NoConn]
    /\ UNCHANGED <<clock, nonces, sent, handled, taken>>

PairRefused(p) ==
    /\ pairing[p] # NoConn
    /\ pairing' = [pairing EXCEPT ![p] = NoConn]
    /\ UNCHANGED <<clock, row, nonces, keys, sent, handled, taken>>

\* A local module gets its first key, or a new one for the connection it has.
EnsureModule(c) ==
    /\ Activate(c)
    /\ nonces' = nonces \ NoncesOf(c)
    /\ UNCHANGED <<clock, sent, handled, pairing, taken>>

\* By the administrator, or by the module manager.
RevokeConnection(c) ==
    /\ row[c].status # "none"
    /\ row' = [row EXCEPT ![c] = Revoked(c)]
    /\ nonces' = nonces \ NoncesOf(c)
    /\ UNCHANGED <<clock, keys, sent, handled, pairing, taken>>

Janitor ==
    /\ nonces' = {n \in nonces : ~Outdated(n)}
    /\ row' = [c \in Connection |->
                   IF Overdue(c) THEN [row[c] EXCEPT !.status = "expired"] ELSE row[c]]
    /\ UNCHANGED <<clock, keys, sent, handled, pairing, taken>>

-----------------------------------------------------------------------------
(* Signed requests *)

\* A client signs with any key it was ever given, by any clock.
Sign(m, c, k, ts) ==
    /\ sent[m] = NoMessage
    /\ k <= keys[c]
    /\ sent' = [sent EXCEPT ![m] = [conn |-> c, key |-> k, ts |-> ts]]
    /\ UNCHANGED <<clock, row, nonces, keys, handled, pairing, taken>>

\* The row is read, then the body awaited.  A connection that is not active is
\* refused.
FindConnection(r, m) ==
    /\ LoopFree
    /\ handled[r] = NoDelivery
    /\ sent[m] # NoMessage
    /\ row[sent[m].conn].status = "active"
    /\ handled' = [handled EXCEPT ![r] =
                       [step |-> "found", msg |-> m, key |-> row[sent[m].conn].key]]
    /\ UNCHANGED <<clock, row, nonces, keys, sent, pairing, taken>>

InWindow(m) == clock <= sent[m].ts + Skew /\ sent[m].ts <= clock + Skew

VerifySignature(r) ==
    LET m == handled[r].msg IN
    /\ LoopFree
    /\ handled[r].step = "found"
    /\ InWindow(m)
    /\ handled[r].key = sent[m].key
    /\ handled' = [handled EXCEPT ![r].step = "verified"]
    /\ UNCHANGED <<clock, row, nonces, keys, sent, pairing, taken>>

\* A wrong signature or scope, a time out of the window, a client that leaves.
Refuse(r) ==
    /\ handled[r] # NoDelivery
    /\ handled' = [handled EXCEPT ![r] = NoDelivery]
    /\ UNCHANGED <<clock, row, nonces, keys, sent, pairing, taken>>

Used(m) == \E n \in nonces : n.msg = m
InTime(m) == clock <= sent[m].ts + Skew
Current(m) == row[sent[m].conn].key = sent[m].key

\* The nonce is burnt, and the request accepted; one that revokes its own
\* connection leaves the nonces alone.
Accept(r, revokes) ==
    LET m == handled[r].msg
        c == sent[m].conn IN
    /\ handled[r].step = "verified"
    /\ ~Used(m)
    /\ nonces' = nonces \cup {[msg |-> m, at |-> clock]}
    /\ row' = IF revokes THEN [row EXCEPT ![c] = Revoked(c)] ELSE row
    /\ taken' = IF InTime(m) /\ Current(m) THEN [taken EXCEPT ![m] = @ + 1] ELSE taken
    /\ handled' = [handled EXCEPT ![r] = NoDelivery]
    /\ UNCHANGED <<clock, keys, sent, pairing>>

-----------------------------------------------------------------------------
(* Time and restarts *)

Tick ==
    /\ clock < MaxTime
    /\ clock' = clock + 1
    /\ UNCHANGED <<row, nonces, keys, sent, handled, pairing, taken>>

\* Tables survive; requests under way do not.
CockpitRestart ==
    /\ handled' = [r \in Request |-> NoDelivery]
    /\ pairing' = [p \in Pairer |-> NoConn]
    /\ UNCHANGED <<clock, row, nonces, keys, sent, taken>>

ConnectionNext ==
    \/ \E c \in Paired :
        \/ CreatePairing(c)
        \/ \E p \in Pairer : PairFinds(p, c)
    \/ \E p \in Pairer : PairWrites(p) \/ PairRefused(p)
    \/ \E c \in Local : EnsureModule(c)
    \/ \E c \in Connection : RevokeConnection(c)
    \/ Janitor
    \/ \E m \in Message, c \in Connection, k \in 1 .. MaxKeys, ts \in Time : Sign(m, c, k, ts)
    \/ \E r \in Request :
        \/ \E m \in Message : FindConnection(r, m)
        \/ VerifySignature(r) \/ Refuse(r)
        \/ \E revokes \in BOOLEAN : Accept(r, revokes)
    \/ Tick
    \/ CockpitRestart

ConnectionSpec == ConnectionInit /\ [][ConnectionNext]_connectionVars

-----------------------------------------------------------------------------
(* Properties *)

\* A signed request is accepted once in its window under the key its connection
\* has, however late and often it is delivered, whatever the client's clock, and
\* although the janitor deletes nonces and revocations delete all of them.
AcceptedOnce == \A m \in Message : taken[m] <= 1

\* A pairing code is good for one key: concurrent pairings, expiry and revocation
\* never let a second client take the connection over.
PairedOnce == \A c \in Paired : keys[c] <= 1
=============================================================================
