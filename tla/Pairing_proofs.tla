---------------------------- MODULE Pairing_proofs ----------------------------
(***************************************************************************)
(* Proofs about Pairing, for any parameters of the two sides, any number   *)
(* of calls of pairing(), any passkeys and any number of rounds: first its *)
(* types, the owners of the keys and the roles, for every pairing; then,   *)
(* from the invariant of PairingLesc, what the pairings of LE Secure       *)
(* Connections promise, however those of the two applications overlap;     *)
(* and, from that of PairingLegacy, what legacy pairings do when one       *)
(* application asks for them.                                              *)
(***************************************************************************)
EXTENDS PairingLegacy, SequenceTheorems, TLAPS

LEMMA TwoSides ==
  /\ \A p \in Peers : Other(p) \in Peers /\ Other(p) # p /\ Other(Other(p)) = p
  /\ Other("central") = "peripheral" /\ Other("peripheral") = "central"
  BY DEF Peers, Other

Fields ==
  {"state", "initiator", "failed", "id", "ipar", "rpar", "method", "tk", "irand", "rrand",
   "iconf", "rconf", "own", "peer", "passkey", "round", "ltk", "irk", "csrk", "got"}

States ==
  Resting \cup
    {"pairing_rsp", "pairing_req", "legacy_confirm_sent", "legacy_random_sent",
     "legacy_random_recvd", "pubkey_sent", "pubkey_recvd", "confirm_sent",
     "random_sent", "dhkey_sent", "dhkey_recvd", "pubkey_recvd_stage",
     "confirm_sent_stage", "random_sent_stage", "distribute"}

\* A key of one kind, generated by side q; or, for a long term key, computed
\* by both sides.
KeyOf(kind, q, v) == v = None \/ (v[1] = kind /\ v[2] = q)
LtkOf(q, v)       == KeyOf("ltk", q, v) \/ v[1] = "f5"

KeysOf(q, k) == LtkOf(q, k.ltk) /\ KeyOf("irk", q, k.irk) /\ KeyOf("csrk", q, k.csrk)

\* A side that has begun a pairing knows its number and its role; the keys
\* it holds as its own, and as its peer's, were generated by that side.
SideOK(p, s, n) ==
  /\ DOMAIN s = Fields /\ DOMAIN s.got = {"ltk", "ediv", "irk", "address", "csrk"}
  /\ s.state \in States /\ s.round \in 1..Rounds /\ s.id \in 0..n
  /\ s.state # "idle" => s.id # 0 /\ (s.initiator <=> p = "central")
  /\ s.ipar # NoParameters \/ s.rpar # NoParameters => s.state # "idle"
  /\ KeysOf(p, [ltk |-> s.ltk, irk |-> s.irk, csrk |-> s.csrk])
  /\ KeysOf(Other(p), s.got)

\* A PDU on its way to side p.
PduOK(p, m, n) ==
  /\ m.t = "pairing_request" => p = "peripheral" /\ m.v.id \in 1..n
  /\ m.t = "security_request" => p = "central"
  /\ m.t = "encryption_information" => LtkOf(Other(p), m.v)
  /\ m.t = "identity_information" => KeyOf("irk", Other(p), m.v)
  /\ m.t = "signing_information" => KeyOf("csrk", Other(p), m.v)

\* A sequence of PDUs on its way to side p.
Sent(p, out, n) ==
  /\ \E S : out \in Seq(S)
  /\ \A i \in 1..Len(out) : PduOK(p, out[i], n)

BondOK(p, e, n) == e.id \in 1..n /\ KeysOf(p, e.own) /\ KeysOf(Other(p), e.peer)

Threads ==
  /\ DOMAIN app = Peers /\ DOMAIN calls = Peers
  /\ \A p \in Peers : app[p] \in {"idle", "checked", "waiting", "polled"}
                      /\ calls[p] \in 0..scenario.limit[p]

Sides ==
  /\ requests \in Nat
  /\ DOMAIN sm = Peers /\ DOMAIN net = Peers /\ DOMAIN bonds = Peers
  /\ \A p \in Peers : /\ SideOK(p, sm[p], requests)
                      /\ Sent(p, net[p], requests)
                      /\ \A e \in bonds[p] : BondOK(p, e, requests)

Inv == scenario \in Scenarios /\ Threads /\ Sides

-----------------------------------------------------------------------------
(* Sequences of PDUs                                                       *)

LEMMA SentNothing == \A p, n : Sent(p, <<>>, n)
<1>1. <<>> \in Seq({}) /\ Len(<<>>) = 0
  BY EmptySeq
<1> QED
  BY <1>1 DEF Sent

LEMMA SentOne ==
  ASSUME NEW p, NEW n, NEW m, PduOK(p, m, n)
  PROVE  Sent(p, <<m>>, n)
<1>1. <<m>> \in Seq({m}) /\ Len(<<m>>) = 1 /\ <<m>>[1] = m
  OBVIOUS
<1>2. \A i \in 1..1 : i = 1
  OBVIOUS
<1> QED
  BY <1>1, <1>2 DEF Sent

LEMMA SentConcat ==
  ASSUME NEW p, NEW n, NEW q, NEW r, Sent(p, q, n), Sent(p, r, n)
  PROVE  Sent(p, q \o r, n)
<1>1. PICK S : q \in Seq(S)
  BY DEF Sent
<1>2. PICK T : r \in Seq(T)
  BY DEF Sent
<1>3. q \in Seq(S \cup T) /\ r \in Seq(S \cup T)
  BY <1>1, <1>2
<1> DEFINE both == q \o r
<1>4. /\ both \in Seq(S \cup T) /\ Len(both) = Len(q) + Len(r)
      /\ \A i \in 1..Len(q) + Len(r) : both[i] = IF i <= Len(q) THEN q[i] ELSE r[i - Len(q)]
  BY <1>3, ConcatProperties
<1>5. Len(q) \in Nat /\ Len(r) \in Nat
  BY <1>3, LenProperties
<1> HIDE DEF both
<1>6. ASSUME NEW i \in 1..Len(both) PROVE PduOK(p, both[i], n)
  <2>1. CASE i <= Len(q)
    <3>1. i \in 1..Len(q) /\ both[i] = q[i]
      BY <1>4, <1>5, <2>1
    <3> QED
      BY <3>1 DEF Sent
  <2>2. CASE ~(i <= Len(q))
    <3>1. i - Len(q) \in 1..Len(r) /\ both[i] = r[i - Len(q)]
      BY <1>4, <1>5, <2>2
    <3> QED
      BY <3>1 DEF Sent
  <2> QED
    BY <2>1, <2>2
<1>7. Sent(p, both, n)
  BY <1>4, <1>6 DEF Sent
<1> QED
  BY <1>7 DEF both

LEMMA SentTwo ==
  ASSUME NEW p, NEW n, NEW a, NEW b, PduOK(p, a, n), PduOK(p, b, n)
  PROVE  Sent(p, <<a, b>>, n)
<1>1. <<a, b>> \in Seq({a, b}) /\ Len(<<a, b>>) = 2 /\ <<a, b>>[1] = a /\ <<a, b>>[2] = b
  OBVIOUS
<1>2. \A i \in 1..2 : i = 1 \/ i = 2
  OBVIOUS
<1> QED
  BY <1>1, <1>2 DEF Sent

LEMMA SentTail ==
  ASSUME NEW p, NEW n, NEW q, Sent(p, q, n), q # <<>>
  PROVE  Sent(p, Tail(q), n) /\ PduOK(p, Head(q), n)
<1>1. PICK S : q \in Seq(S)
  BY DEF Sent
<1>2. /\ Tail(q) \in Seq(S) /\ Len(Tail(q)) = Len(q) - 1 /\ Len(q) \in Nat /\ Len(q) # 0
      /\ \A i \in 1..Len(Tail(q)) : Tail(q)[i] = q[i + 1]
      /\ Head(q) = q[1]
  BY <1>1, HeadTailProperties, EmptySeq, LenProperties
<1> DEFINE rest == Tail(q)
<1> HIDE DEF rest
<1>3. ASSUME NEW i \in 1..Len(rest) PROVE i + 1 \in 1..Len(q)
  BY <1>2 DEF rest
<1>4. Sent(p, rest, n)
  BY <1>2, <1>3 DEF Sent, rest
<1>5. 1 \in 1..Len(q)
  BY <1>2
<1> QED
  BY <1>2, <1>4, <1>5 DEF Sent, rest

\* What holds of a side, or of PDUs, does so when more pairings have begun.
LEMMA Later ==
  ASSUME NEW n \in Nat, NEW k \in Nat, n <= k
  PROVE  /\ \A p, s : SideOK(p, s, n) => SideOK(p, s, k)
         /\ \A p, q : Sent(p, q, n) => Sent(p, q, k)
         /\ \A p, e : BondOK(p, e, n) => BondOK(p, e, k)
<1>1. 0..n \subseteq 0..k /\ 1..n \subseteq 1..k
  OBVIOUS
<1>2. \A p, m : PduOK(p, m, n) => PduOK(p, m, k)
  BY <1>1 DEF PduOK
<1> QED
  BY <1>1, <1>2 DEF SideOK, Sent, BondOK

-----------------------------------------------------------------------------
(* A step of one side, and what it must show                               *)

\* A step that leaves side p in state s, takes the first PDU for it if
\* `took`, sends `out`, and may store a bond.
SideStep(p, s, rest, out) ==
  /\ sm' = [sm EXCEPT ![p] = s]
  /\ DOMAIN net' = Peers /\ net'[p] = rest /\ net'[Other(p)] = net[Other(p)] \o out
  /\ rest = net[p] \/ (net[p] # <<>> /\ rest = Tail(net[p]))
  /\ SideOK(p, s, requests') /\ Sent(Other(p), out, requests')
  /\ requests' = requests \/ requests' = requests + 1
  /\ bonds' = bonds \/ \E e : BondOK(p, e, requests') /\ bonds' = [bonds EXCEPT ![p] = @ \cup {e}]
  /\ scenario' = scenario /\ Threads'

LEMMA SideStepWorks ==
  ASSUME Inv, NEW p \in Peers, NEW s, NEW rest, NEW out, SideStep(p, s, rest, out)
  PROVE  Inv'
<1> USE DEF SideStep
<1> DEFINE q == Other(p)
<1>1. q \in Peers /\ q # p /\ \A r \in Peers : r = p \/ r = q
  BY TwoSides DEF Peers
<1>2. requests' \in Nat /\ requests \in Nat /\ requests <= requests'
  BY DEF Inv, Sides
<1>3. /\ DOMAIN sm' = Peers /\ sm'[p] = s /\ sm'[q] = sm[q]
  BY <1>1 DEF Inv, Sides
<1>4. SideOK(q, sm[q], requests') /\ Sent(q, net[q], requests') /\ Sent(p, net[p], requests')
      /\ \A r \in Peers : \A e \in bonds[r] : BondOK(r, e, requests')
  BY <1>1, <1>2, Later DEF Inv, Sides
<1>5. Sent(p, net'[p], requests')
  BY <1>4, SentTail
<1>6. Sent(q, net'[q], requests')
  BY <1>4, SentConcat
<1>7. DOMAIN bonds' = Peers /\ \A r \in Peers : \A e \in bonds'[r] : BondOK(r, e, requests')
  <2>1. CASE bonds' = bonds
    BY <1>4, <2>1 DEF Inv, Sides
  <2>2. CASE bonds' # bonds
    <3>1. PICK e : BondOK(p, e, requests') /\ bonds' = [bonds EXCEPT ![p] = @ \cup {e}]
      BY <2>2
    <3>2. DOMAIN bonds' = Peers /\ bonds'[p] = bonds[p] \cup {e} /\ bonds'[q] = bonds[q]
      BY <1>1, <3>1 DEF Inv, Sides
    <3> QED
      BY <1>1, <1>4, <3>1, <3>2
  <2> QED
    BY <2>1, <2>2
<1>8. \A r \in Peers : SideOK(r, sm'[r], requests') /\ Sent(r, net'[r], requests')
  BY <1>1, <1>3, <1>4, <1>5, <1>6
<1> HIDE DEF q, SideStep
<1>9. DOMAIN net' = Peers /\ scenario' = scenario /\ Threads'
  BY DEF SideStep
<1>10. Sides'
  BY <1>2, <1>3, <1>7, <1>8, <1>9 DEF Sides
<1> QED
  BY <1>9, <1>10 DEF Inv

Bystanders == UNCHANGED <<scenario, app, calls>>

LEMMA ThreadsRest ==
  ASSUME Inv, Bystanders
  PROVE  scenario' = scenario /\ Threads'
  BY DEF Inv, Bystanders, Threads

\* What most handlers do: take a PDU and send `out`.
LEMMA Handled ==
  ASSUME Inv, NEW p \in Peers, net[p] # <<>>, NEW s, NEW out, Handle(p, s, out),
         SideOK(p, s, requests), Sent(Other(p), out, requests),
         Bystanders, UNCHANGED <<bonds, requests>>
  PROVE  Inv'
<1>1. scenario' = scenario /\ Threads'
  BY ThreadsRest
<1>2. /\ sm' = [sm EXCEPT ![p] = s]
      /\ DOMAIN net' = Peers /\ net'[p] = Tail(net[p]) /\ net'[Other(p)] = net[Other(p)] \o out
  BY TwoSides DEF Handle, Inv, Sides
<1>3. requests' = requests /\ bonds' = bonds
  OBVIOUS
<1>4. SideStep(p, s, Tail(net[p]), out)
  BY <1>1, <1>2, <1>3 DEF SideStep
<1> QED
  BY <1>4, SideStepWorks

\* A side that goes on in a pairing: its number, its role and its keys stay.
Moves(s, t) ==
  /\ DOMAIN t = Fields
  /\ t.state \in States \ {"idle"} /\ t.round \in 1..Rounds
  /\ t.id = s.id /\ t.initiator = s.initiator /\ t.got = s.got
  /\ t.ltk = s.ltk /\ t.irk = s.irk /\ t.csrk = s.csrk

LEMMA MovesKeep ==
  ASSUME NEW p, NEW n, NEW s, NEW t, SideOK(p, s, n), s.state # "idle", Moves(s, t)
  PROVE  SideOK(p, t, n)
  BY DEF SideOK, Moves

LEMMA ResetFields ==
  ASSUME NEW s
  PROVE  LET r == Reset(s) IN
         /\ DOMAIN r = Fields /\ r.round = s.round /\ r.got = NoKeys
         /\ r.ltk = None /\ r.irk = None /\ r.csrk = None /\ r.initiator = FALSE
         /\ r.state = "idle" /\ r.id = 0 /\ r.ipar = NoParameters /\ r.rpar = NoParameters
  BY DEF Reset, Fresh, Fields

LEMMA ResetOK ==
  ASSUME PairingAssumption, NEW p, NEW n \in Nat, NEW s, SideOK(p, s, n)
  PROVE  SideOK(p, Reset(s), n) /\ SideOK(p, Failed(s), n)
<1>1. /\ DOMAIN Reset(s) = Fields /\ Reset(s).round = s.round /\ Reset(s).got = NoKeys
      /\ Reset(s).ltk = None /\ Reset(s).irk = None /\ Reset(s).csrk = None
      /\ Reset(s).state = "idle" /\ Reset(s).id = 0
      /\ Reset(s).ipar = NoParameters /\ Reset(s).rpar = NoParameters
  BY ResetFields
<1>2. /\ DOMAIN Failed(s) = Fields /\ Failed(s).round = s.round /\ Failed(s).got = NoKeys
      /\ Failed(s).ltk = None /\ Failed(s).irk = None /\ Failed(s).csrk = None
      /\ Failed(s).state = "idle" /\ Failed(s).id = 0
      /\ Failed(s).ipar = NoParameters /\ Failed(s).rpar = NoParameters
  BY <1>1 DEF Failed, Fields
<1>3. /\ DOMAIN NoKeys = {"ltk", "ediv", "irk", "address", "csrk"} /\ KeysOf(Other(p), NoKeys)
      /\ KeysOf(p, [ltk |-> None, irk |-> None, csrk |-> None])
  BY DEF NoKeys, KeysOf, KeyOf, LtkOf
<1>4. "idle" \in States /\ s.round \in 1..Rounds /\ 0 \in 0..n
  BY DEF States, Resting, SideOK
<1> HIDE DEF NoParameters
<1> QED
  BY <1>1, <1>2, <1>3, <1>4 DEF SideOK

Quiet == {"pairing_request", "security_request", "encryption_information",
          "identity_information", "signing_information"}

\* Most PDUs carry neither a request nor a key.
LEMMA Plain ==
  ASSUME NEW p, NEW n, NEW t, t \notin Quiet, NEW v
  PROVE  PduOK(p, Pdu(t, v), n) /\ PduOK(p, Notice(t), n) /\ Sent(p, <<Pdu(t, v)>>, n)
         /\ Sent(p, <<Notice(t)>>, n)
<1>1. PduOK(p, Pdu(t, v), n) /\ PduOK(p, Notice(t), n)
  BY DEF PduOK, Pdu, Notice, Quiet
<1> QED
  BY <1>1, SentOne

LEMMA Refused ==
  ASSUME PairingAssumption, Inv, NEW p \in Peers, net[p] # <<>>, Refuse(p),
         Bystanders, UNCHANGED <<bonds, requests>>
  PROVE  Inv'
<1>1. SideOK(p, Failed(sm[p]), requests)
  BY ResetOK DEF Inv, Sides
<1>2. Sent(Other(p), <<Notice("failed")>>, requests)
  BY Plain DEF Quiet
<1> QED
  BY <1>1, <1>2, Handled DEF Refuse

Quietly == Bystanders /\ UNCHANGED <<bonds, requests>>

LEMMA Mine ==
  ASSUME Inv, NEW p \in Peers
  PROVE  /\ requests \in Nat
         /\ SideOK(p, sm[p], requests) /\ DOMAIN sm[p] = Fields /\ sm[p].round \in 1..Rounds
         /\ net[p] # <<>> => PduOK(p, Head(net[p]), requests)
  BY SentTail DEF Inv, Sides, SideOK

LEMMA Goes ==
  ASSUME Inv, NEW p \in Peers, net[p] # <<>>, sm[p].state # "idle", NEW t, Moves(sm[p], t),
         NEW out, Handle(p, t, out), Sent(Other(p), out, requests), Quietly
  PROVE  Inv'
<1>1. SideOK(p, t, requests)
  BY Mine, MovesKeep
<1> QED
  BY <1>1, Handled DEF Quietly

LEMMA QuietlyRefused ==
  ASSUME PairingAssumption, Inv, NEW p \in Peers, net[p] # <<>>, Refuse(p), Quietly
  PROVE  Inv'
  BY Refused DEF Quietly

-----------------------------------------------------------------------------
(* Legacy pairing, and LE Secure Connections                               *)

LEMMA OnLegacyConfirmKeeps ==
  ASSUME Inv, NEW p \in Peers, OnLegacyConfirm(p)
  PROVE  Inv'
<1> DEFINE s == [sm[p] EXCEPT !.rrand = Rand(p, sm[p])]
           c == LegacyConfirm(s.tk, s.rrand)
           a == [s EXCEPT !.iconf = Value(p), !.rconf = c, !.state = "legacy_confirm_sent"]
           b == [sm[p] EXCEPT !.rconf = Value(p), !.state = "legacy_random_sent"]
<1>1. /\ net[p] # <<>> /\ sm[p].state # "idle" /\ Quietly
      /\ \/ Handle(p, a, <<Pdu("confirm", c)>>)
         \/ Handle(p, b, <<Pdu("random", sm[p].irand)>>)
  BY DEF OnLegacyConfirm, In, Received, Only_sm_net, threads, ghosts, Quietly, Bystanders
<1>2. Moves(sm[p], a) /\ Moves(sm[p], b)
  BY Mine DEF Moves, Fields, States
<1>3. /\ Sent(Other(p), <<Pdu("confirm", c)>>, requests)
      /\ Sent(Other(p), <<Pdu("random", sm[p].irand)>>, requests)
  BY Plain DEF Quiet
<1> HIDE DEF a, b, c
<1> QED
  BY <1>1, <1>2, <1>3, Goes

LEMMA OnLegacyRandomOfInitiatorKeeps ==
  ASSUME PairingAssumption, Inv, NEW p \in Peers, OnLegacyRandomOfInitiator(p)
  PROVE  Inv'
<1> DEFINE s == [sm[p] EXCEPT !.irand = Value(p), !.state = "legacy_random_sent"]
<1>1. /\ net[p] # <<>> /\ sm[p].state # "idle" /\ Quietly
      /\ Handle(p, s, <<Pdu("random", s.rrand)>>) \/ Refuse(p)
  BY DEF OnLegacyRandomOfInitiator, In, Received, threads, ghosts, Quietly, Bystanders
<1>2. Moves(sm[p], s)
  BY Mine DEF Moves, Fields, States
<1>3. Sent(Other(p), <<Pdu("random", s.rrand)>>, requests)
  BY Plain DEF Quiet
<1> HIDE DEF s
<1> QED
  BY <1>1, <1>2, <1>3, Goes, QuietlyRefused

LEMMA OnLegacyRandomOfResponderKeeps ==
  ASSUME PairingAssumption, Inv, NEW p \in Peers, OnLegacyRandomOfResponder(p)
  PROVE  Inv'
<1> DEFINE s == [sm[p] EXCEPT !.rrand = Value(p), !.state = "legacy_random_recvd"]
<1>1. /\ net[p] # <<>> /\ sm[p].state # "idle" /\ Quietly
      /\ Handle(p, s, <<Notice("enc_req")>>) \/ Refuse(p)
  BY DEF OnLegacyRandomOfResponder, In, Received, threads, ghosts, Quietly, Bystanders
<1>2. Moves(sm[p], s)
  BY Mine DEF Moves, Fields, States
<1>3. Sent(Other(p), <<Notice("enc_req")>>, requests)
  BY Plain DEF Quiet
<1> HIDE DEF s
<1> QED
  BY <1>1, <1>2, <1>3, Goes, QuietlyRefused

LEMMA OnPublicKeyOfInitiatorKeeps ==
  ASSUME PairingAssumption, Inv, NEW p \in Peers, OnPublicKeyOfInitiator(p)
  PROVE  Inv'
<1> DEFINE s == [sm[p] EXCEPT !.peer = Value(p), !.rrand = Rand(p, sm[p])]
           c == Confirm(s.own, s.peer, s.rrand, 0)
           a == [s EXCEPT !.rconf = c, !.state = "confirm_sent"]
           b == [s EXCEPT !.round = 1, !.state = "pubkey_recvd_stage"]
<1>1. /\ net[p] # <<>> /\ sm[p].state # "idle" /\ Quietly
      /\ \/ Handle(p, a, <<Pdu("public_key", s.own), Pdu("confirm", c)>>)
         \/ Handle(p, b, <<Pdu("public_key", s.own)>>)
  BY DEF OnPublicKeyOfInitiator, In, Received, Only_sm_net, threads, ghosts, Quietly, Bystanders
<1>2. 1 \in 1..Rounds
  BY DEF PairingAssumption
<1>3. Moves(sm[p], a) /\ Moves(sm[p], b)
  BY <1>2, Mine DEF Moves, Fields, States
<1>4. Sent(Other(p), <<Pdu("public_key", s.own)>>, requests)
  BY Plain DEF Quiet
<1>5. Sent(Other(p), <<Pdu("public_key", s.own), Pdu("confirm", c)>>, requests)
  <2>1. PduOK(Other(p), Pdu("public_key", s.own), requests)
        /\ PduOK(Other(p), Pdu("confirm", c), requests)
    BY Plain DEF Quiet
  <2> QED
    BY <2>1, SentTwo
<1> HIDE DEF s, a, b, c
<1> QED
  BY <1>1, <1>3, <1>4, <1>5, Goes

\* The initiator's commitment to a bit, from a state it has moved to.
LEMMA BitKeeps ==
  ASSUME Inv, NEW p \in Peers, net[p] # <<>>, sm[p].state # "idle", NEW s, Moves(sm[p], s),
         BitOfInitiator(p, s), Quietly
  PROVE  Inv'
<1> DEFINE t == [s EXCEPT !.irand = Rand(p, s), !.state = "confirm_sent_stage"]
           c == Confirm(t.own, t.peer, t.irand, PasskeyBit(t))
           u == [t EXCEPT !.iconf = c]
<1>1. Handle(p, u, <<Pdu("confirm", c)>>)
  BY DEF BitOfInitiator
<1>2. Moves(sm[p], u)
  BY DEF Moves, Fields, States
<1>3. Sent(Other(p), <<Pdu("confirm", c)>>, requests)
  BY Plain DEF Quiet
<1> HIDE DEF u, c
<1> QED
  BY <1>1, <1>2, <1>3, Goes

LEMMA OnPublicKeyOfResponderKeeps ==
  ASSUME PairingAssumption, Inv, NEW p \in Peers, OnPublicKeyOfResponder(p)
  PROVE  Inv'
<1> DEFINE s == [sm[p] EXCEPT !.peer = Value(p)]
           a == [s EXCEPT !.state = "pubkey_recvd"]
<1>1. /\ net[p] # <<>> /\ sm[p].state = "pubkey_sent" /\ Quietly
      /\ Handle(p, a, <<>>) \/ \E k \in Passkeys : BitOfInitiator(p, [s EXCEPT !.round = 1, !.passkey = k])
  BY DEF OnPublicKeyOfResponder, In, Received, threads, Quietly, Bystanders
<1>2. CASE Handle(p, a, <<>>)
  <2>1. Moves(sm[p], a)
    BY Mine DEF Moves, Fields, States
  <2> HIDE DEF a
  <2> QED
    BY <1>1, <1>2, <2>1, SentNothing, Goes
<1>3. ASSUME NEW k \in Passkeys, BitOfInitiator(p, [s EXCEPT !.round = 1, !.passkey = k])
      PROVE  Inv'
  <2> DEFINE b == [s EXCEPT !.round = 1, !.passkey = k]
  <2>1. 1 \in 1..Rounds
    BY DEF PairingAssumption
  <2>2. Moves(sm[p], b)
    BY <1>1, <2>1, Mine DEF Moves, Fields, States
  <2> HIDE DEF b
  <2>3. BitOfInitiator(p, b)
    BY <1>3 DEF b
  <2> QED
    BY <1>1, <2>2, <2>3, BitKeeps
<1> QED
  BY <1>1, <1>2, <1>3

LEMMA OnConfirmOfResponderKeeps ==
  ASSUME Inv, NEW p \in Peers, OnConfirmOfResponder(p)
  PROVE  Inv'
<1> DEFINE s == [sm[p] EXCEPT !.rconf = Value(p)]
           a == [s EXCEPT !.irand = Rand(p, s), !.state = "random_sent"]
           b == [s EXCEPT !.state = "random_sent_stage"]
<1>1. /\ net[p] # <<>> /\ sm[p].state # "idle" /\ Quietly
      /\ \/ Handle(p, a, <<Pdu("random", Rand(p, s))>>)
         \/ Handle(p, b, <<Pdu("random", s.irand)>>)
  BY DEF OnConfirmOfResponder, In, Received, Only_sm_net, threads, ghosts, Quietly, Bystanders
<1>2. Moves(sm[p], a) /\ Moves(sm[p], b)
  BY Mine DEF Moves, Fields, States
<1>3. /\ Sent(Other(p), <<Pdu("random", Rand(p, s))>>, requests)
      /\ Sent(Other(p), <<Pdu("random", s.irand)>>, requests)
  BY Plain DEF Quiet
<1> HIDE DEF a, b, s
<1> QED
  BY <1>1, <1>2, <1>3, Goes

LEMMA OnConfirmOfInitiatorKeeps ==
  ASSUME Inv, NEW p \in Peers, OnConfirmOfInitiator(p)
  PROVE  Inv'
<1> DEFINE a(k) == [sm[p] EXCEPT !.passkey = k, !.iconf = Value(p), !.rrand = Rand(p, sm[p]),
                                 !.state = "confirm_sent_stage"]
           c(k) == Confirm(a(k).own, a(k).peer, a(k).rrand, PasskeyBit(a(k)))
<1>1. /\ net[p] # <<>> /\ sm[p].state # "idle" /\ Quietly
      /\ \E k \in IF sm[p].round = 1 THEN Passkeys ELSE {sm[p].passkey} :
            Handle(p, [a(k) EXCEPT !.rconf = c(k)], <<Pdu("confirm", c(k))>>)
  BY DEF OnConfirmOfInitiator, In, Received, threads, Quietly, Bystanders
<1>2. PICK k : Handle(p, [a(k) EXCEPT !.rconf = c(k)], <<Pdu("confirm", c(k))>>)
  BY <1>1
<1> DEFINE b == [a(k) EXCEPT !.rconf = c(k)]
           d == c(k)
<1>3. Moves(sm[p], b)
  BY Mine DEF Moves, Fields, States
<1>4. Sent(Other(p), <<Pdu("confirm", d)>>, requests)
  BY Plain DEF Quiet
<1>5. Handle(p, b, <<Pdu("confirm", d)>>)
  BY <1>2
<1> HIDE DEF b, d
<1> QED
  BY <1>1, <1>3, <1>4, <1>5, Goes

\* The long term key is computed, and counts as the peer's as well.
LEMMA ComputedKey ==
  ASSUME NEW p, NEW n, NEW s, SideOK(p, s, n), s.state # "idle", NEW u, Moves(s, u),
         NEW x \in States \ {"idle"}
  PROVE  SideOK(p, [WithLongTermKey(u) EXCEPT !.state = x], n)
<1> DEFINE t == [WithLongTermKey(u) EXCEPT !.state = x]
           k == LongTermKey(u)
<1>1. DOMAIN u = Fields /\ u.got = s.got /\ u.id = s.id /\ u.initiator = s.initiator
      /\ u.irk = s.irk /\ u.csrk = s.csrk /\ u.round \in 1..Rounds
  BY DEF Moves
<1>2. DOMAIN u.got = {"ltk", "ediv", "irk", "address", "csrk"}
  BY <1>1 DEF SideOK
<1>3. k[1] = "f5"
  BY DEF LongTermKey
<1> HIDE DEF k
<1>4. /\ DOMAIN t = Fields /\ t.got = [u.got EXCEPT !.ltk = k, !.ediv = TRUE]
      /\ t.state = x /\ t.id = s.id /\ t.initiator = s.initiator /\ t.round \in 1..Rounds
      /\ t.ltk = k /\ t.irk = s.irk /\ t.csrk = s.csrk
  BY <1>1 DEF WithLongTermKey, k, Fields
<1> HIDE DEF t
<1>5. DOMAIN t.got = {"ltk", "ediv", "irk", "address", "csrk"}
      /\ t.got.ltk = k /\ t.got.irk = s.got.irk /\ t.got.csrk = s.got.csrk
  BY <1>1, <1>2, <1>4
<1>6. /\ KeysOf(p, [ltk |-> t.ltk, irk |-> t.irk, csrk |-> t.csrk])
      /\ KeysOf(Other(p), t.got)
  BY <1>3, <1>4, <1>5 DEF SideOK, KeysOf, LtkOf
<1>7. SideOK(p, t, n)
  BY <1>4, <1>5, <1>6 DEF SideOK
<1> QED
  BY <1>7 DEF t

LEMMA OnRandomOfResponderKeeps ==
  ASSUME PairingAssumption, Inv, NEW p \in Peers, OnRandomOfResponder(p)
  PROVE  Inv'
<1> DEFINE s == [sm[p] EXCEPT !.rrand = Value(p)]
           t == [WithLongTermKey(s) EXCEPT !.state = "dhkey_sent"]
           v == CheckValue(t, "initiator")
<1>1. /\ net[p] # <<>> /\ sm[p].state = "random_sent" /\ Quietly
      /\ Handle(p, t, <<Pdu("dhkey_check", v)>>) \/ Refuse(p)
  BY DEF OnRandomOfResponder, In, Received, threads, Quietly, Bystanders
<1>2. Moves(sm[p], s)
  BY <1>1, Mine DEF Moves, Fields, States
<1> HIDE DEF s
<1>3. SideOK(p, t, requests)
  BY <1>1, <1>2, Mine, ComputedKey DEF States
<1>4. Sent(Other(p), <<Pdu("dhkey_check", v)>>, requests)
  BY Plain DEF Quiet
<1> HIDE DEF t, v
<1> QED
  BY <1>1, <1>3, <1>4, Handled, QuietlyRefused DEF Quietly

LEMMA OnRandomOfInitiatorKeeps ==
  ASSUME PairingAssumption, Inv, NEW p \in Peers, OnRandomOfInitiator(p)
  PROVE  Inv'
<1> DEFINE s == [sm[p] EXCEPT !.irand = Value(p)]
           a == [s EXCEPT !.state = "random_sent"]
           random == Pdu("random", s.rrand)
<1>1. /\ net[p] # <<>> /\ sm[p].state = "confirm_sent" /\ Quietly
      /\ \/ Handle(p, a, <<random>>)
         \/ Handle(p, Failed(s), <<random, Notice("failed")>>)
  BY DEF OnRandomOfInitiator, In, Received, threads, Quietly, Bystanders
<1>2. Moves(sm[p], a) /\ Moves(sm[p], s)
  BY <1>1, Mine DEF Moves, Fields, States
<1>3. PduOK(Other(p), random, requests) /\ PduOK(Other(p), Notice("failed"), requests)
  BY Plain DEF Quiet
<1> HIDE DEF a, s, random
<1>4. SideOK(p, Failed(s), requests)
  <2>1. SideOK(p, s, requests)
    BY <1>1, <1>2, Mine, MovesKeep
  <2> QED
    BY <2>1, Mine, ResetOK
<1>5. CASE Handle(p, a, <<random>>)
  <2>1. Sent(Other(p), <<random>>, requests)
    BY <1>3, SentOne
  <2> QED
    BY <1>1, <1>2, <1>5, <2>1, Goes
<1>6. CASE Handle(p, Failed(s), <<random, Notice("failed")>>)
  <2>1. Sent(Other(p), <<random, Notice("failed")>>, requests)
    BY <1>3, SentTwo
  <2> QED
    BY <1>1, <1>4, <1>6, <2>1, Handled DEF Quietly
<1> QED
  BY <1>1, <1>5, <1>6

LEMMA OnRandomOfRoundKeeps ==
  ASSUME PairingAssumption, Inv, NEW p \in Peers, OnRandomOfRound(p)
  PROVE  Inv'
<1> DEFINE s == [sm[p] EXCEPT !.rrand = Value(p)]
           t == [WithLongTermKey(s) EXCEPT !.state = "dhkey_sent"]
           v == CheckValue(t, "initiator")
           next == [s EXCEPT !.round = @ + 1]
<1>1. /\ net[p] # <<>> /\ sm[p].state = "random_sent_stage" /\ Quietly
      /\ \/ Handle(p, t, <<Pdu("dhkey_check", v)>>)
         \/ s.round # Rounds /\ BitOfInitiator(p, next)
         \/ Refuse(p)
  BY DEF OnRandomOfRound, In, Received, Only_sm_net, threads, ghosts, Quietly, Bystanders
<1>2. Moves(sm[p], s)
  BY <1>1, Mine DEF Moves, Fields, States
<1>3. CASE s.round # Rounds /\ BitOfInitiator(p, next)
  <2>1. s.round \in 1..Rounds /\ Rounds \in Nat
    BY <1>2 DEF Moves, PairingAssumption
  <2>2. s.round + 1 \in 1..Rounds
    BY <1>3, <2>1
  <2>3. Moves(sm[p], next)
    BY <1>2, <2>2 DEF Moves, Fields
  <2> HIDE DEF next
  <2> QED
    BY <1>1, <1>3, <2>3, BitKeeps
<1> HIDE DEF s
<1>4. SideOK(p, t, requests)
  BY <1>1, <1>2, Mine, ComputedKey DEF States
<1>5. Sent(Other(p), <<Pdu("dhkey_check", v)>>, requests)
  BY Plain DEF Quiet
<1> HIDE DEF t, v
<1>6. CASE Handle(p, t, <<Pdu("dhkey_check", v)>>)
  BY <1>1, <1>4, <1>5, <1>6, Handled DEF Quietly
<1>7. CASE Refuse(p)
  BY <1>1, <1>7, QuietlyRefused
<1> QED
  BY <1>1, <1>3, <1>6, <1>7

LEMMA OnRandomOfRoundAtResponderKeeps ==
  ASSUME PairingAssumption, Inv, NEW p \in Peers, OnRandomOfRoundAtResponder(p)
  PROVE  Inv'
<1> DEFINE s == [sm[p] EXCEPT !.irand = Value(p)]
           a == [s EXCEPT !.state = "random_sent"]
           b == [s EXCEPT !.state = "random_sent_stage", !.round = @ + 1]
<1>1. /\ net[p] # <<>> /\ sm[p].state = "confirm_sent_stage" /\ Quietly
      /\ \/ Handle(p, a, <<Pdu("random", s.rrand)>>)
         \/ s.round # Rounds /\ Handle(p, b, <<Pdu("random", s.rrand)>>)
         \/ Refuse(p)
  BY DEF OnRandomOfRoundAtResponder, In, Received, Only_sm_net, threads, ghosts, Quietly, Bystanders
<1>2. Moves(sm[p], s) /\ Moves(sm[p], a)
  BY <1>1, Mine DEF Moves, Fields, States
<1>3. s.round # Rounds => Moves(sm[p], b)
  <2>1. s.round \in 1..Rounds /\ Rounds \in Nat
    BY <1>2 DEF Moves, PairingAssumption
  <2>2. s.round # Rounds => s.round + 1 \in 1..Rounds
    BY <2>1
  <2> HIDE DEF s
  <2> QED
    BY <1>2, <2>2 DEF Moves, Fields, States
<1>4. Sent(Other(p), <<Pdu("random", s.rrand)>>, requests)
  BY Plain DEF Quiet
<1> HIDE DEF a, b, s
<1>5. CASE Refuse(p)
  BY <1>1, <1>5, QuietlyRefused
<1> QED
  BY <1>1, <1>2, <1>3, <1>4, <1>5, Goes

LEMMA OnDhkeyCheckKeeps ==
  ASSUME PairingAssumption, Inv, NEW p \in Peers, OnDhkeyCheck(p)
  PROVE  Inv'
<1> DEFINE s == WithLongTermKey(sm[p])
           a == [s EXCEPT !.state = "dhkey_sent"]
           b == [sm[p] EXCEPT !.state = "dhkey_recvd"]
           v == CheckValue(s, "responder")
<1>1. /\ net[p] # <<>> /\ sm[p].state \in {"random_sent", "dhkey_sent"} /\ Quietly
      /\ Handle(p, a, <<Pdu("dhkey_check", v)>>) \/ Handle(p, b, <<Notice("enc_req")>>) \/ Refuse(p)
  BY DEF OnDhkeyCheck, Checked, In, Received, threads, ghosts, Quietly, Bystanders
<1>2. Moves(sm[p], sm[p]) /\ Moves(sm[p], b)
  BY <1>1, Mine DEF Moves, Fields, States
<1>3. SideOK(p, a, requests)
  BY <1>1, <1>2, Mine, ComputedKey DEF States
<1>4. /\ Sent(Other(p), <<Pdu("dhkey_check", v)>>, requests)
      /\ Sent(Other(p), <<Notice("enc_req")>>, requests)
  BY Plain DEF Quiet
<1> HIDE DEF a, b, v
<1>5. CASE Handle(p, a, <<Pdu("dhkey_check", v)>>)
  BY <1>1, <1>3, <1>4, <1>5, Handled DEF Quietly
<1>6. CASE Handle(p, b, <<Notice("enc_req")>>)
  BY <1>1, <1>2, <1>4, <1>6, Goes
<1>7. CASE Refuse(p)
  BY <1>1, <1>7, QuietlyRefused
<1> QED
  BY <1>1, <1>5, <1>6, <1>7

-----------------------------------------------------------------------------
(* Feature exchange                                                        *)

LEMMA InitiateOK ==
  ASSUME PairingAssumption, Inv
  PROVE  /\ SideOK("central", Initiate("central"), requests + 1)
         /\ PduOK("peripheral", PairingRequest, requests + 1)
<1> DEFINE p == "central"
           s == Initiate(p)
           r == Reset(sm[p])
<1>1. p \in Peers /\ p = "central"
  BY DEF Peers
<1> HIDE DEF p
<1>2. SideOK(p, r, requests) /\ DOMAIN r = Fields /\ r.round \in 1..Rounds /\ requests \in Nat
      /\ r.got = NoKeys /\ r.ltk = None /\ r.irk = None /\ r.csrk = None
  <2>1. SideOK(p, sm[p], requests) /\ sm[p].round \in 1..Rounds /\ requests \in Nat
    BY <1>1, Mine
  <2> QED
    BY <2>1, ResetOK, ResetFields
<1> HIDE DEF r
<1>3. /\ DOMAIN s = Fields /\ s.state = "pairing_rsp" /\ s.initiator = TRUE
      /\ s.id = requests + 1 /\ s.round = r.round
      /\ s.got = r.got /\ s.ltk = r.ltk /\ s.irk = r.irk /\ s.csrk = r.csrk
  BY <1>2 DEF Initiate, r, Fields
<1> HIDE DEF s
<1>4. SideOK(p, s, requests + 1)
  <2>1. s.state \in States \ {"idle"} /\ s.id \in 0..requests + 1 /\ s.id # 0
    BY <1>2, <1>3 DEF States
  <2> QED
    BY <1>1, <1>2, <1>3, <2>1 DEF SideOK
<1>5. PduOK("peripheral", PairingRequest, requests + 1)
  <2>1. requests + 1 \in 1..requests + 1
    BY <1>2
  <2> QED
    BY <2>1 DEF PduOK, PairingRequest, Pdu
<1> QED
  BY <1>1, <1>4, <1>5 DEF p, s

LEMMA OnSecurityRequestKeeps ==
  ASSUME PairingAssumption, Inv, NEW p \in Peers, OnSecurityRequest(p)
  PROVE  Inv'
<1>1. /\ net[p] # <<>> /\ Head(net[p]).t = "security_request" /\ Bystanders /\ bonds' = bonds
      /\ Handle(p, Initiate(p), <<PairingRequest>>) /\ requests' = requests + 1
  BY DEF OnSecurityRequest, Received, threads, Bystanders
<1>2. p = "central" /\ Other(p) = "peripheral"
  BY <1>1, Mine, TwoSides DEF PduOK
<1> DEFINE s == Initiate(p)
           out == <<PairingRequest>>
<1>3. SideOK(p, s, requests') /\ Sent(Other(p), out, requests')
  BY <1>1, <1>2, InitiateOK, SentOne
<1>4. /\ sm' = [sm EXCEPT ![p] = s]
      /\ DOMAIN net' = Peers /\ net'[p] = Tail(net[p]) /\ net'[Other(p)] = net[Other(p)] \o out
  BY <1>1, TwoSides DEF Handle, Inv, Sides
<1> HIDE DEF s, out
<1>5. SideStep(p, s, Tail(net[p]), out)
  BY <1>1, <1>3, <1>4, ThreadsRest DEF SideStep
<1> QED
  BY <1>5, SideStepWorks

LEMMA DeclinedKeeps ==
  ASSUME PairingAssumption, Inv, NEW p \in Peers, Declined(p)
  PROVE  Inv'
<1>1. net[p] # <<>> /\ Refuse(p) /\ Quietly
  BY DEF Declined, Received, Only_sm_net, threads, ghosts, Quietly, Bystanders
<1> QED
  BY <1>1, QuietlyRefused

LEMMA OnPairingRequestKeeps ==
  ASSUME PairingAssumption, Inv, NEW p \in Peers, OnPairingRequest(p)
  PROVE  Inv'
<1> DEFINE m == Method(Value(p).par, par[p])
           s == [Reset(sm[p]) EXCEPT !.state = "pairing_req", !.id = Value(p).id,
                   !.ipar = Value(p).par, !.rpar = par[p], !.method = m]
           a == [s EXCEPT !.own = KeyPair(p, s)]
           b(pin) == [s EXCEPT !.tk = pin]
           v(pin) == CASE m.lesc                        -> a
                       [] ~m.lesc /\ m.kind = "passkey" -> b(pin)
                       [] OTHER                         -> s
           out == <<Pdu("pairing_response", par[p])>>
<1>1. /\ net[p] # <<>> /\ Head(net[p]).t = "pairing_request" /\ Quietly
      /\ \E pin \in Passkeys : Handle(p, v(pin), out)
  BY DEF OnPairingRequest, Received, threads, Quietly, Bystanders
<1>2. PICK pin : Handle(p, v(pin), out)
  <2> HIDE DEF v
  <2> QED
    BY <1>1
<1>3. p = "peripheral" /\ Value(p).id \in 1..requests
  <2> HIDE DEF v, out
  <2> QED
    BY <1>1, Mine DEF PduOK, Value
<1> DEFINE r == Reset(sm[p])
           t == v(pin)
<1>4. /\ SideOK(p, r, requests) /\ DOMAIN r = Fields /\ r.round \in 1..Rounds
      /\ r.initiator = FALSE /\ requests \in Nat
  <2>1. SideOK(p, sm[p], requests) /\ sm[p].round \in 1..Rounds /\ requests \in Nat
    BY Mine
  <2> QED
    BY <2>1, ResetOK, ResetFields
<1>5. \A u \in {s, a, b(pin)} :
        /\ DOMAIN u = Fields /\ u.state = "pairing_req" /\ u.id = Value(p).id
        /\ u.round = r.round /\ u.initiator = r.initiator /\ u.got = r.got
        /\ u.ltk = r.ltk /\ u.irk = r.irk /\ u.csrk = r.csrk
  <2> DEFINE Like(u) == /\ DOMAIN u = Fields /\ u.state = "pairing_req" /\ u.id = Value(p).id
                        /\ u.round = r.round /\ u.initiator = r.initiator /\ u.got = r.got
                        /\ u.ltk = r.ltk /\ u.irk = r.irk /\ u.csrk = r.csrk
  <2> HIDE DEF m
  <2>1. DOMAIN r = Fields
    BY <1>4
  <2>2. Like(s)
    BY <2>1 DEF Fields
  <2> HIDE DEF r
  <2>3. DOMAIN s = Fields
    BY <2>2
  <2> HIDE DEF s
  <2>4. Like(a)
    BY <2>2, <2>3 DEF Fields
  <2>5. Like(b(pin))
    BY <2>2, <2>3 DEF Fields
  <2> HIDE DEF a, b
  <2> QED
    BY <2>2, <2>4, <2>5
<1>6. t \in {s, a, b(pin)}
  <2> HIDE DEF s, a, b, m
  <2>1. CASE m.lesc
    BY <2>1
  <2>2. CASE ~m.lesc /\ m.kind = "passkey"
    BY <2>2
  <2>3. CASE ~m.lesc /\ m.kind # "passkey"
    BY <2>3
  <2> QED
    BY <2>1, <2>2, <2>3
<1>7. Sent(Other(p), out, requests)
  BY Plain DEF Quiet
<1>8. Handle(p, t, out)
  BY <1>2
<1> HIDE DEF t, s, a, b, r, out, m
<1>9. SideOK(p, t, requests)
  <2>1. "pairing_req" \in States
    BY DEF States
  <2>2. Value(p).id \in 0..requests /\ Value(p).id # 0
    BY <1>3, <1>4
  <2> QED
    BY <1>3, <1>4, <1>5, <1>6, <2>1, <2>2 DEF SideOK
<1> QED
  BY <1>1, <1>7, <1>8, <1>9, Handled DEF Quietly

LEMMA OnPairingResponseKeeps ==
  ASSUME Inv, NEW p \in Peers, OnPairingResponse(p)
  PROVE  Inv'
<1> DEFINE m == Method(sm[p].ipar, Value(p))
           s == [sm[p] EXCEPT !.rpar = Value(p), !.method = m]
           a == [s EXCEPT !.own = KeyPair(p, s), !.state = "pubkey_sent"]
           k == KeyPair(p, s)
<1>1. /\ net[p] # <<>> /\ sm[p].state = "pairing_rsp" /\ Quietly
  BY DEF OnPairingResponse, In, Received, threads, Quietly, Bystanders
<1>2. PICK pin \in Passkeys :
        LET t == [s EXCEPT !.tk = IF m.kind = "passkey" THEN pin ELSE 0, !.irand = Rand(p, s)]
            c == LegacyConfirm(t.tk, t.irand) IN
        \/ Handle(p, a, <<Pdu("public_key", k)>>)
        \/ Handle(p, [t EXCEPT !.iconf = c, !.state = "legacy_confirm_sent"], <<Pdu("confirm", c)>>)
  BY DEF OnPairingResponse
<1> DEFINE t == [s EXCEPT !.tk = IF m.kind = "passkey" THEN pin ELSE 0, !.irand = Rand(p, s)]
           c == LegacyConfirm(t.tk, t.irand)
           b == [t EXCEPT !.iconf = c, !.state = "legacy_confirm_sent"]
<1>3. Moves(sm[p], a) /\ Moves(sm[p], b)
  BY Mine DEF Moves, Fields, States
<1>4. /\ Sent(Other(p), <<Pdu("public_key", k)>>, requests)
      /\ Sent(Other(p), <<Pdu("confirm", c)>>, requests)
  BY Plain DEF Quiet
<1>5. Handle(p, a, <<Pdu("public_key", k)>>) \/ Handle(p, b, <<Pdu("confirm", c)>>)
  BY <1>2
<1> HIDE DEF a, b, c, k
<1> QED
  BY <1>1, <1>3, <1>4, <1>5, Goes

-----------------------------------------------------------------------------
(* Key distribution                                                        *)

LEMMA DoneKeeps ==
  ASSUME Inv, NEW p \in Peers, net[p] # <<>>, NEW s, SideOK(p, s, requests), s.state # "idle",
         NEW out, Sent(Other(p), out, requests), Done(p, s, out), Bystanders, requests' = requests
  PROVE  Inv'
<1> DEFINE t == [s EXCEPT !.state = "done"]
           e == Bond(s)
<1>1. Handle(p, t, out) /\ (bonds' = bonds \/ bonds' = [bonds EXCEPT ![p] = @ \cup {e}])
  BY DEF Done
<1>2. SideOK(p, t, requests)
  <2>1. Moves(s, t)
    BY DEF Moves, SideOK, Fields, States, Resting
  <2> HIDE DEF t
  <2> QED
    BY <2>1, MovesKeep
<1>3. BondOK(p, e, requests)
  <2>1. /\ e.id = s.id /\ e.own.ltk = s.ltk /\ e.own.irk = s.irk /\ e.own.csrk = s.csrk
        /\ e.peer.ltk = s.got.ltk /\ e.peer.irk = s.got.irk /\ e.peer.csrk = s.got.csrk
    BY DEF Bond
  <2> HIDE DEF e
  <2>2. e.id \in 1..requests
    BY <2>1, Mine DEF SideOK
  <2> QED
    BY <2>1, <2>2 DEF BondOK, SideOK, KeysOf
<1>4. /\ sm' = [sm EXCEPT ![p] = t]
      /\ DOMAIN net' = Peers /\ net'[p] = Tail(net[p]) /\ net'[Other(p)] = net[Other(p)] \o out
  BY <1>1, TwoSides DEF Handle, Inv, Sides
<1> HIDE DEF t, e
<1>5. SideStep(p, t, Tail(net[p]), out)
  BY <1>1, <1>2, <1>3, <1>4, ThreadsRest DEF SideStep
<1> QED
  BY <1>5, SideStepWorks

\* The keys a side generates are its own, and those it sends too.
LEMMA OwnKeysOK ==
  ASSUME NEW p \in Peers, NEW n, NEW s, SideOK(p, s, n), s.state # "idle"
  PROVE  LET t == WithOwnKeys(p, s) IN
         /\ SideOK(p, t, n) /\ t.state # "idle" /\ DOMAIN t = Fields
         /\ Sent(Other(p), KeyPdus(p, s), n)
<1> DEFINE t == WithOwnKeys(p, s)
           q == Other(p)
<1>1. /\ DOMAIN t = Fields /\ t.state = s.state /\ t.round = s.round /\ t.id = s.id
      /\ t.initiator = s.initiator /\ t.ipar = s.ipar /\ t.rpar = s.rpar /\ t.got = s.got
      /\ t.ltk = (IF s.ltk = None THEN <<"ltk", p, s.id>> ELSE s.ltk)
      /\ t.irk = (IF "id" \in OwnKeys(s) THEN <<"irk", p, s.id>> ELSE s.irk)
      /\ t.csrk = (IF "sign" \in OwnKeys(s) THEN <<"csrk", p, s.id>> ELSE s.csrk)
  BY DEF WithOwnKeys, SideOK, Fields
<1> HIDE DEF t
<1>2. LtkOf(p, s.ltk) /\ KeyOf("irk", p, s.irk) /\ KeyOf("csrk", p, s.csrk)
  BY DEF SideOK, KeysOf
<1>3. LtkOf(p, t.ltk) /\ KeyOf("irk", p, t.irk) /\ KeyOf("csrk", p, t.csrk)
  BY <1>1, <1>2 DEF LtkOf, KeyOf
<1>4. SideOK(p, t, n)
  <2>1. KeysOf(p, [ltk |-> t.ltk, irk |-> t.irk, csrk |-> t.csrk])
    BY <1>3 DEF KeysOf
  <2> QED
    BY <1>1, <2>1 DEF SideOK
<1>5. Other(q) = p
  BY TwoSides
<1> HIDE DEF q
<1>6. /\ PduOK(q, Pdu("encryption_information", t.ltk), n)
      /\ PduOK(q, Pdu("identity_information", t.irk), n)
      /\ PduOK(q, Pdu("signing_information", t.csrk), n)
  BY <1>3, <1>5 DEF PduOK, Pdu
<1>7. /\ PduOK(q, Notice("master_identification"), n) /\ PduOK(q, Notice("identity_address"), n)
  BY Plain DEF Quiet
<1> DEFINE enc == IF "enc" \in OwnKeys(s) /\ s.ltk = None
                  THEN <<Pdu("encryption_information", t.ltk), Notice("master_identification")>>
                  ELSE <<>>
           id == IF "id" \in OwnKeys(s)
                 THEN <<Pdu("identity_information", t.irk), Notice("identity_address")>> ELSE <<>>
           sign == IF "sign" \in OwnKeys(s) THEN <<Pdu("signing_information", t.csrk)>> ELSE <<>>
<1>8. Sent(q, enc, n) /\ Sent(q, id, n) /\ Sent(q, sign, n)
  BY <1>6, <1>7, SentNothing, SentOne, SentTwo
<1>9. KeyPdus(p, s) = enc \o id \o sign
  BY DEF KeyPdus, t
<1> HIDE DEF enc, id, sign
<1>10. Sent(q, enc \o id \o sign, n)
  BY <1>8, SentConcat
<1> QED
  BY <1>1, <1>4, <1>9, <1>10 DEF t, q

LEMMA DistributeKeeps ==
  ASSUME Inv, NEW p \in Peers, net[p] # <<>>, NEW s, SideOK(p, s, requests), s.state # "idle",
         NEW first, Sent(Other(p), first, requests), Distribute(p, s, first),
         Bystanders, requests' = requests
  PROVE  Inv'
<1> DEFINE t == WithOwnKeys(p, s)
           out == first \o KeyPdus(p, s)
           u == IF "sign" \in OwnKeys(s) THEN [t EXCEPT !.state = "distribute"] ELSE t
<1>1. SideOK(p, t, requests) /\ t.state # "idle" /\ DOMAIN t = Fields
      /\ Sent(Other(p), out, requests)
  BY OwnKeysOK, SentConcat
<1>2. \/ Done(p, t, out)
      \/ Handle(p, u, out) /\ bonds' = bonds
  BY DEF Distribute
<1> HIDE DEF t, out
<1>3. CASE Done(p, t, out)
  BY <1>1, <1>3, DoneKeeps
<1>4. CASE Handle(p, u, out) /\ bonds' = bonds
  <2>1. SideOK(p, u, requests)
    <3>1. Moves(t, [t EXCEPT !.state = "distribute"])
      BY <1>1 DEF Moves, SideOK, Fields, States
    <3> QED
      BY <1>1, <3>1, MovesKeep
  <2> HIDE DEF u
  <2> QED
    BY <1>1, <1>4, <2>1, Handled
<1> QED
  BY <1>2, <1>3, <1>4

\* The key in the first PDU is the peer's.
LEMMA KeyTaken ==
  ASSUME Inv, NEW p \in Peers, net[p] # <<>>, NEW t \in KeyTypes, Head(net[p]).t = t, NEW got,
         got = CASE t = "encryption_information" -> [sm[p].got EXCEPT !.ltk = Value(p)]
                 [] t = "master_identification"  -> [sm[p].got EXCEPT !.ediv = TRUE]
                 [] t = "identity_information"   -> [sm[p].got EXCEPT !.irk = Value(p)]
                 [] t = "identity_address"       -> [sm[p].got EXCEPT !.address = TRUE]
                 [] t = "signing_information"    -> [sm[p].got EXCEPT !.csrk = Value(p)]
  PROVE  DOMAIN got = {"ltk", "ediv", "irk", "address", "csrk"} /\ KeysOf(Other(p), got)
<1> DEFINE old == sm[p].got
           v == Value(p)
<1>1. DOMAIN old = {"ltk", "ediv", "irk", "address", "csrk"} /\ KeysOf(Other(p), old)
  BY Mine DEF SideOK
<1>2. /\ t = "encryption_information" => LtkOf(Other(p), v)
      /\ t = "identity_information" => KeyOf("irk", Other(p), v)
      /\ t = "signing_information" => KeyOf("csrk", Other(p), v)
  BY Mine DEF PduOK, Value
<1> HIDE DEF old, v
<1>3. CASE t = "encryption_information"
  <2>1. got = [old EXCEPT !.ltk = v]
    BY <1>3 DEF old, v
  <2> QED
    BY <1>1, <1>2, <1>3, <2>1 DEF KeysOf
<1>4. CASE t = "master_identification"
  <2>1. got = [old EXCEPT !.ediv = TRUE]
    BY <1>4 DEF old, v
  <2> QED
    BY <1>1, <2>1 DEF KeysOf
<1>5. CASE t = "identity_information"
  <2>1. got = [old EXCEPT !.irk = v]
    BY <1>5 DEF old, v
  <2> QED
    BY <1>1, <1>2, <1>5, <2>1 DEF KeysOf
<1>6. CASE t = "identity_address"
  <2>1. got = [old EXCEPT !.address = TRUE]
    BY <1>6 DEF old, v
  <2> QED
    BY <1>1, <2>1 DEF KeysOf
<1>7. CASE t = "signing_information"
  <2>1. got = [old EXCEPT !.csrk = v]
    BY <1>7 DEF old, v
  <2> QED
    BY <1>1, <1>2, <1>7, <2>1 DEF KeysOf
<1> QED
  BY <1>3, <1>4, <1>5, <1>6, <1>7 DEF KeyTypes

LEMMA OnKeyKeeps ==
  ASSUME Inv, NEW p \in Peers, OnKey(p)
  PROVE  Inv'
<1> DEFINE Got(t) == CASE t = "encryption_information" -> [sm[p].got EXCEPT !.ltk = Value(p)]
                       [] t = "master_identification"  -> [sm[p].got EXCEPT !.ediv = TRUE]
                       [] t = "identity_information"   -> [sm[p].got EXCEPT !.irk = Value(p)]
                       [] t = "identity_address"       -> [sm[p].got EXCEPT !.address = TRUE]
                       [] t = "signing_information"    -> [sm[p].got EXCEPT !.csrk = Value(p)]
           S(t) == [sm[p] EXCEPT !.got = Got(t)]
<1>1. \E t \in KeyTypes :
        /\ Received(p, t) /\ PeerOf(S(t)) # NoParameters
        /\ \/ Distribute(p, S(t), <<>>)
           \/ Done(p, S(t), <<>>)
           \/ Handle(p, S(t), <<>>) /\ bonds' = bonds
        /\ Bystanders /\ requests' = requests
  BY DEF OnKey, threads, ghosts, Bystanders
<1>2. PICK t \in KeyTypes :
        /\ Received(p, t) /\ PeerOf(S(t)) # NoParameters
        /\ \/ Distribute(p, S(t), <<>>)
           \/ Done(p, S(t), <<>>)
           \/ Handle(p, S(t), <<>>) /\ bonds' = bonds
        /\ Bystanders /\ requests' = requests
  BY <1>1
<1> DEFINE got == Got(t)
           s == S(t)
<1>3. net[p] # <<>> /\ Head(net[p]).t = t
  BY <1>2 DEF Received
<1>4. DOMAIN got = {"ltk", "ediv", "irk", "address", "csrk"} /\ KeysOf(Other(p), got)
  BY <1>3, KeyTaken
<1>5. s = [sm[p] EXCEPT !.got = got]
  OBVIOUS
<1>6. /\ PeerOf(s) # NoParameters /\ Bystanders /\ requests' = requests
      /\ \/ Distribute(p, s, <<>>)
         \/ Done(p, s, <<>>)
         \/ Handle(p, s, <<>>) /\ bonds' = bonds
  BY <1>2
<1> HIDE DEF Got, S, got, s
<1>7. /\ DOMAIN s = Fields /\ s.state = sm[p].state /\ s.round = sm[p].round /\ s.id = sm[p].id
      /\ s.initiator = sm[p].initiator /\ s.ipar = sm[p].ipar /\ s.rpar = sm[p].rpar
      /\ s.got = got /\ s.ltk = sm[p].ltk /\ s.irk = sm[p].irk /\ s.csrk = sm[p].csrk
  BY <1>5, Mine DEF Fields
<1>8. SideOK(p, s, requests)
  BY <1>4, <1>7, Mine DEF SideOK
<1>9. s.state # "idle"
  BY <1>6, <1>8 DEF SideOK, PeerOf
<1>10. Sent(Other(p), <<>>, requests)
  BY SentNothing
<1>11. CASE Distribute(p, s, <<>>)
  BY <1>3, <1>6, <1>8, <1>9, <1>10, <1>11, DistributeKeeps
<1>12. CASE Done(p, s, <<>>)
  BY <1>3, <1>6, <1>8, <1>9, <1>10, <1>12, DoneKeeps
<1>13. CASE Handle(p, s, <<>>) /\ bonds' = bonds
  BY <1>3, <1>6, <1>8, <1>10, <1>13, Handled
<1> QED
  BY <1>6, <1>11, <1>12, <1>13

-----------------------------------------------------------------------------
(* Encryption and failures                                                 *)

LEMMA OnEncReqKeeps ==
  ASSUME Inv, NEW p \in Peers, OnEncReq(p)
  PROVE  Inv'
<1>1. net[p] # <<>> /\ Quietly /\ Handle(p, sm[p], <<Notice("enc_rsp"), Notice("start_enc_req")>>)
  BY DEF OnEncReq, SetEncryption, Received, threads, ghosts, Quietly, Bystanders
<1>2. Sent(Other(p), <<Notice("enc_rsp"), Notice("start_enc_req")>>, requests)
  <2>1. /\ PduOK(Other(p), Notice("enc_rsp"), requests)
        /\ PduOK(Other(p), Notice("start_enc_req"), requests)
    BY Plain DEF Quiet
  <2> QED
    BY <2>1, SentTwo
<1> QED
  BY <1>1, <1>2, Mine, Handled DEF Quietly

LEMMA OnEncRspKeeps ==
  ASSUME Inv, NEW p \in Peers, OnEncRsp(p)
  PROVE  Inv'
<1>1. net[p] # <<>> /\ Quietly /\ Handle(p, sm[p], <<>>)
  BY DEF OnEncRsp, SetEncryption, Received, threads, ghosts, Quietly, Bystanders
<1> QED
  BY <1>1, Mine, SentNothing, Handled DEF Quietly

LEMMA OnStartEncReqKeeps ==
  ASSUME Inv, NEW p \in Peers, OnStartEncReq(p)
  PROVE  Inv'
<1>1. net[p] # <<>> /\ Quietly /\ Handle(p, sm[p], <<Notice("start_enc_rsp")>>)
  BY DEF OnStartEncReq, Received, Only_sm_net, threads, ghosts, Quietly, Bystanders
<1>2. Sent(Other(p), <<Notice("start_enc_rsp")>>, requests)
  BY Plain DEF Quiet
<1> QED
  BY <1>1, <1>2, Mine, Handled DEF Quietly

LEMMA OnStartEncRspKeeps ==
  ASSUME Inv, NEW p \in Peers, OnStartEncRsp(p)
  PROVE  Inv'
<1> DEFINE answer == IF sm[p].initiator THEN <<>> ELSE <<Notice("start_enc_rsp")>>
<1>1. /\ net[p] # <<>> /\ Bystanders /\ requests' = requests
      /\ \/ MayDistribute(sm[p]) /\ Distribute(p, sm[p], answer)
         \/ Handle(p, sm[p], answer) /\ bonds' = bonds
  BY DEF OnStartEncRsp, Received, threads, ghosts, Bystanders
<1>2. Sent(Other(p), answer, requests)
  <2>1. Sent(Other(p), <<Notice("start_enc_rsp")>>, requests)
    BY Plain DEF Quiet
  <2> QED
    BY <2>1, SentNothing
<1> HIDE DEF answer
<1>3. CASE MayDistribute(sm[p]) /\ Distribute(p, sm[p], answer)
  <2>1. sm[p].state # "idle"
    BY <1>3 DEF MayDistribute
  <2> QED
    BY <1>1, <1>2, <1>3, <2>1, Mine, DistributeKeeps
<1>4. CASE Handle(p, sm[p], answer) /\ bonds' = bonds
  BY <1>1, <1>2, <1>4, Mine, Handled
<1> QED
  BY <1>1, <1>3, <1>4

LEMMA OnFailedKeeps ==
  ASSUME PairingAssumption, Inv, NEW p \in Peers, OnFailed(p)
  PROVE  Inv'
<1>1. net[p] # <<>> /\ Quietly /\ Handle(p, Failed(sm[p]), <<>>)
  BY DEF OnFailed, Received, Only_sm_net, threads, ghosts, Quietly, Bystanders
<1>2. SideOK(p, Failed(sm[p]), requests)
  BY Mine, ResetOK
<1> QED
  BY <1>1, <1>2, SentNothing, Handled DEF Quietly

LEMMA UnexpectedKeeps ==
  ASSUME PairingAssumption, Inv, NEW p \in Peers, Unexpected(p)
  PROVE  Inv'
<1>1. net[p] # <<>> /\ Refuse(p) /\ Quietly
  BY DEF Unexpected, Received, Only_sm_net, threads, ghosts, Quietly, Bystanders
<1> QED
  BY <1>1, QuietlyRefused

LEMMA StrayPublicKeyKeeps ==
  ASSUME Inv, NEW p \in Peers, StrayPublicKey(p)
  PROVE  Inv'
<1>1. net[p] # <<>> /\ Quietly /\ Handle(p, sm[p], <<>>)
  BY DEF StrayPublicKey, Received, Only_sm_net, threads, ghosts, Quietly, Bystanders
<1> QED
  BY <1>1, Mine, SentNothing, Handled DEF Quietly

LEMMA MessageKeeps ==
  ASSUME PairingAssumption, Inv, NEW p \in Peers, Message(p)
  PROVE  Inv'
  BY OnSecurityRequestKeeps, OnPairingRequestKeeps, OnPairingResponseKeeps, DeclinedKeeps,
     OnLegacyConfirmKeeps, OnLegacyRandomOfInitiatorKeeps, OnLegacyRandomOfResponderKeeps,
     OnPublicKeyOfInitiatorKeeps, OnPublicKeyOfResponderKeeps, OnConfirmOfInitiatorKeeps,
     OnConfirmOfResponderKeeps, OnRandomOfInitiatorKeeps, OnRandomOfResponderKeeps,
     OnRandomOfRoundKeeps, OnRandomOfRoundAtResponderKeeps, OnDhkeyCheckKeeps, OnKeyKeeps,
     OnEncReqKeeps, OnEncRspKeeps, OnStartEncReqKeeps, OnStartEncRspKeeps, OnFailedKeeps,
     UnexpectedKeeps, StrayPublicKeyKeeps DEF Message

-----------------------------------------------------------------------------
(* Applications                                                            *)

LEMMA CallKeeps ==
  ASSUME PairingAssumption, Inv, NEW p \in Peers, Call(p)
  PROVE  Inv'
<1>1. /\ calls[p] < scenario.limit[p] /\ calls' = [calls EXCEPT ![p] = @ + 1]
      /\ app' = app \/ app' = [app EXCEPT ![p] = "checked"]
      /\ UNCHANGED <<scenario, sm, net, bonds, requests>>
  BY DEF Call, ghosts
<1>2. \A q \in Peers : scenario.limit[q] \in Nat
  BY DEF PairingAssumption, Inv
<1>3. calls[p] + 1 \in 0..scenario.limit[p]
  BY <1>1, <1>2 DEF Inv, Threads
<1>4. Threads'
  BY <1>1, <1>3 DEF Inv, Threads
<1>5. Sides'
  BY <1>1 DEF Inv, Sides
<1> QED
  BY <1>1, <1>4, <1>5 DEF Inv

LEMMA StartKeeps ==
  ASSUME PairingAssumption, Inv, NEW p \in Peers, Start(p)
  PROVE  Inv'
<1>1. /\ app' = [app EXCEPT ![p] = "waiting"] /\ UNCHANGED <<scenario, calls, bonds>>
  BY DEF Start
<1>2. scenario' = scenario /\ Threads'
  BY <1>1 DEF Inv, Threads
<1>3. CASE p = "central"
  <2> DEFINE s == Initiate(p)
             out == <<PairingRequest>>
  <2>1. /\ sm' = [sm EXCEPT ![p] = s] /\ requests' = requests + 1
        /\ net' = [net EXCEPT ![Other(p)] = Append(@, PairingRequest)]
    BY <1>3 DEF Start
  <2>2. SideOK(p, s, requests') /\ Sent(Other(p), out, requests')
    BY <1>3, <2>1, InitiateOK, SentOne, TwoSides
  <2>3. net[Other(p)] \o out = Append(net[Other(p)], PairingRequest)
    <3>1. PICK S : net[Other(p)] \in Seq(S)
      BY TwoSides DEF Inv, Sides, Sent
    <3> QED
      BY <3>1, AppendIsConcat
  <2>4. DOMAIN net' = Peers /\ net'[p] = net[p] /\ net'[Other(p)] = net[Other(p)] \o out
    BY <2>1, <2>3, TwoSides DEF Inv, Sides
  <2> HIDE DEF s, out
  <2>5. SideStep(p, s, net[p], out)
    BY <1>1, <1>2, <2>1, <2>2, <2>4 DEF SideStep
  <2> QED
    BY <2>5, SideStepWorks
<1>4. CASE p = "peripheral"
  <2> DEFINE s == Reset(sm[p])
             out == <<Notice("security_request")>>
  <2>1. /\ sm' = [sm EXCEPT ![p] = s] /\ requests' = requests
        /\ net' = [net EXCEPT ![Other(p)] = Append(@, Notice("security_request"))]
    BY <1>4 DEF Start
  <2>2. SideOK(p, s, requests')
    BY <2>1, Mine, ResetOK
  <2>3. Sent(Other(p), out, requests')
    <3>1. PduOK("central", Notice("security_request"), requests')
      BY DEF PduOK, Notice, Pdu
    <3> QED
      BY <1>4, <3>1, TwoSides, SentOne
  <2>4. net[Other(p)] \o out = Append(net[Other(p)], Notice("security_request"))
    <3>1. PICK S : net[Other(p)] \in Seq(S)
      BY TwoSides DEF Inv, Sides, Sent
    <3> QED
      BY <3>1, AppendIsConcat
  <2>5. DOMAIN net' = Peers /\ net'[p] = net[p] /\ net'[Other(p)] = net[Other(p)] \o out
    BY <2>1, <2>4, TwoSides DEF Inv, Sides
  <2> HIDE DEF s, out
  <2>6. SideStep(p, s, net[p], out)
    BY <1>1, <1>2, <2>1, <2>2, <2>3, <2>5 DEF SideStep
  <2> QED
    BY <2>6, SideStepWorks
<1> QED
  BY <1>3, <1>4 DEF Peers

LEMMA PollKeeps ==
  ASSUME Inv, NEW p \in Peers, PollDone(p) \/ PollFailed(p)
  PROVE  Inv'
<1>1. /\ \E x \in {"polled", "idle"} : app' = [app EXCEPT ![p] = x]
      /\ UNCHANGED <<scenario, sm, net, calls, bonds, requests>>
  BY DEF PollDone, PollFailed, ghosts
<1>2. Threads'
  BY <1>1 DEF Inv, Threads
<1>3. Sides'
  BY <1>1 DEF Inv, Sides
<1> QED
  BY <1>1, <1>2, <1>3 DEF Inv

LEMMA ResetDoneKeeps ==
  ASSUME PairingAssumption, Inv, NEW p \in Peers, ResetDone(p)
  PROVE  Inv'
<1> DEFINE s == Reset(sm[p])
<1>1. /\ app' = [app EXCEPT ![p] = "idle"] /\ sm' = [sm EXCEPT ![p] = s]
      /\ UNCHANGED <<scenario, net, calls, bonds, requests>>
  BY DEF ResetDone, ghosts
<1>2. SideOK(p, s, requests)
  BY Mine, ResetOK
<1> HIDE DEF s
<1>3. Threads'
  BY <1>1 DEF Inv, Threads
<1>4. Sides'
  BY <1>1, <1>2 DEF Inv, Sides
<1> QED
  BY <1>1, <1>3, <1>4 DEF Inv

-----------------------------------------------------------------------------
(* The theorems                                                            *)

LEMMA InvInit ==
  ASSUME PairingAssumption, Init
  PROVE  Inv
<1>1. /\ scenario \in Scenarios /\ requests = 0
      /\ sm = [p \in Peers |-> Fresh] /\ net = [p \in Peers |-> <<>>]
      /\ app = [p \in Peers |-> "idle"] /\ calls = [p \in Peers |-> 0] /\ bonds = [p \in Peers |-> {}]
  BY DEF Init
<1>2. Threads
  <2>1. \A p \in Peers : scenario.limit[p] \in Nat
    BY <1>1 DEF PairingAssumption
  <2> QED
    BY <1>1, <2>1 DEF Threads
<1>3. \A p : SideOK(p, Fresh, 0)
  <2>1. /\ DOMAIN Fresh = Fields /\ Fresh.state = "idle" /\ Fresh.round = 1 /\ Fresh.id = 0
        /\ Fresh.ipar = NoParameters /\ Fresh.rpar = NoParameters /\ Fresh.got = NoKeys
        /\ Fresh.ltk = None /\ Fresh.irk = None /\ Fresh.csrk = None
    BY DEF Fresh, Fields
  <2>2. /\ DOMAIN NoKeys = {"ltk", "ediv", "irk", "address", "csrk"}
        /\ \A p : KeysOf(p, NoKeys) /\ KeysOf(p, [ltk |-> None, irk |-> None, csrk |-> None])
    BY DEF NoKeys, KeysOf, KeyOf, LtkOf
  <2>3. "idle" \in States /\ 1 \in 1..Rounds /\ 0 \in 0..0
    BY DEF States, Resting, PairingAssumption
  <2> HIDE DEF Fresh, NoKeys, NoParameters
  <2> QED
    BY <2>1, <2>2, <2>3 DEF SideOK
<1> HIDE DEF Fresh
<1>4. Sides
  BY <1>1, <1>3, SentNothing DEF Sides
<1> QED
  BY <1>1, <1>2, <1>4 DEF Inv

LEMMA InvNext ==
  ASSUME PairingAssumption, Inv, [Next]_vars
  PROVE  Inv'
<1>1. ASSUME NEW p \in Peers, Application(p)
      PROVE  Inv'
  BY <1>1, StartKeeps, PollKeeps, ResetDoneKeeps DEF Application
<1>2. CASE UNCHANGED vars
  <2>1. UNCHANGED <<scenario, sm, net, app, calls, bonds, requests>>
    BY <1>2 DEF vars
  <2> QED
    BY <2>1 DEF Inv, Threads, Sides
<1> QED
  BY <1>1, <1>2, MessageKeeps, CallKeeps DEF Next

LEMMA SpecInv == PairingAssumption => (Spec => []Inv)
<1> SUFFICES ASSUME PairingAssumption PROVE Spec => []Inv
  OBVIOUS
<1>1. Init => Inv
  BY InvInit
<1>2. Inv /\ [Next]_vars => Inv'
  BY InvNext
<1> QED
  BY <1>1, <1>2, PTL DEF Spec

\* Every variable of Pairing keeps its type, whatever the parameters of the
\* two sides, what the users type and how often the applications pair: in
\* particular a bond always has the number of a pairing that was requested.
THEOREM TypeCorrect == PairingAssumption => (Spec => []TypeOK)
<1>1. Inv => TypeOK
  BY DEF Inv, Threads, Sides, SideOK, BondOK, States, TypeOK
<1> QED
  BY <1>1, SpecInv, PTL

\* The keys in a bond are where they belong: what a side stores as its own
\* it has generated, and what it stores as its peer's the peer has; the long
\* term key of LE Secure Connections, which both compute, is the exception.
KeysInPlace ==
  \A p \in Peers : \A e \in bonds[p] : KeysOf(p, e.own) /\ KeysOf(Other(p), e.peer)

\* However pairings overlap, are refused or fail, no side ever stores a key
\* of its own as one of its peer, or a key of its peer as its own.
THEOREM KeysBelong == PairingAssumption => (Spec => []KeysInPlace)
<1>1. Inv => KeysInPlace
  BY DEF Inv, Sides, BondOK, KeysInPlace
<1> QED
  BY <1>1, SpecInv, PTL

\* The central alone initiates a pairing and the peripheral alone answers
\* one, though either application may start it.
OneInitiator == \A p \in Peers : sm[p].state # "idle" => (sm[p].initiator <=> p = "central")

\* The two sides never take the same role, however pairings overlap.
THEOREM RolesFixed == PairingAssumption => (Spec => []OneInitiator)
<1>1. Inv => OneInitiator
  BY DEF Inv, Sides, SideOK, OneInitiator
<1> QED
  BY <1>1, SpecInv, PTL

-----------------------------------------------------------------------------
(* The order of the PDUs of a queue                                        *)

\* What a queue keeps when its head h is taken: r is the rest.
Tails(s, h, r) ==
  /\ IsQueue(r)
  /\ \A x : x \in Elems(s) <=> x = h \/ x \in Elems(r)
  /\ \A x, y : Before(s, x, y) <=> Before(r, x, y) \/ (x = h /\ y \in Elems(r))
  /\ \A T, x : FirstOf(s, T, x) <=> x = h \/ (h.t \notin T /\ FirstOf(r, T, x))
  /\ \A T, x : LastOf(s, T, x) <=> LastOf(r, T, x) \/ (x = h /\ NoneIn(r, T))
  /\ \A T, x, y : Bare(s, T, x, y) <=> Bare(r, T, x, y) \/ (x = h /\ FirstOf(r, T, y))

\* And when the element e is put in it: q is the queue then.
Appends(s, e, q) ==
  /\ IsQueue(q)
  /\ \A x : x \in Elems(q) <=> x = e \/ x \in Elems(s)
  /\ \A x, y : Before(q, x, y) <=> Before(s, x, y) \/ (x \in Elems(s) /\ y = e)
  /\ \A T, x : FirstOf(q, T, x) <=> FirstOf(s, T, x) \/ (x = e /\ NoneIn(s, T))
  /\ \A T, x : LastOf(q, T, x) <=> x = e \/ (e.t \notin T /\ LastOf(s, T, x))
  /\ \A T, x, y : Bare(q, T, x, y) <=> Bare(s, T, x, y) \/ (LastOf(s, T, x) /\ y = e)

\* And when the elements of K are: q is the queue then.
Extends(s, K, q) ==
  /\ IsQueue(q)
  /\ \A x : x \in Elems(q) <=> x \in K \/ x \in Elems(s)
  /\ \A x, y : Before(q, x, y) => Before(s, x, y) \/ (x \in Elems(q) /\ y \in K)
  /\ \A T, x : FirstOf(q, T, x) => FirstOf(s, T, x) \/ x \in K
  /\ \A T, x : LastOf(q, T, x) => LastOf(s, T, x) \/ x \in K
  /\ \A T, x, y : Bare(q, T, x, y) => Bare(s, T, x, y) \/ (x \in Elems(q) /\ y \in K)

LEMMA QueueOf ==
  ASSUME NEW S, NEW s \in Seq(S)
  PROVE  IsQueue(s)
<1>1. Len(s) \in Nat /\ s \in [1..Len(s) -> S]
  BY LenProperties
<1>2. \A i \in 1..Len(s) : s[i] \in Elems(s)
  BY DEF Elems
<1>3. s \in [1..Len(s) -> Elems(s)]
  BY <1>1, <1>2
<1> QED
  BY <1>1, <1>3 DEF IsQueue

LEMMA TailsOf ==
  ASSUME NEW s, IsQueue(s), s # <<>>
  PROVE  Tails(s, Head(s), Tail(s))
<1> DEFINE h == Head(s)
           r == Tail(s)
<1>1. /\ IsQueue(r) /\ Len(r) \in Nat /\ Len(s) = Len(r) + 1
      /\ \A i \in 1..Len(r) : r[i] = s[i + 1]
      /\ h = s[1]
  <2>1. PICK S : s \in Seq(S)
    BY DEF IsQueue
  <2>2. IsQueue(r)
    BY <2>1, HeadTailProperties, QueueOf
  <2> QED
    BY <2>1, <2>2, HeadTailProperties, EmptySeq, LenProperties
<1> HIDE DEF h, r
<1>2. /\ 1 \in 1..Len(s)
      /\ \A i \in 1..Len(r) : i + 1 \in 1..Len(s)
      /\ \A i \in 1..Len(s) : i = 1 \/ (i - 1 \in 1..Len(r) /\ s[i] = r[i - 1])
  BY <1>1
<1>3. \A x : x \in Elems(s) <=> x = h \/ x \in Elems(r)
  <2>1. \A x : x \in Elems(s) <=> \E i \in 1..Len(s) : s[i] = x
    BY DEF Elems
  <2>2. \A x : x \in Elems(r) <=> \E i \in 1..Len(r) : r[i] = x
    BY DEF Elems
  <2> QED
    BY <1>1, <1>2, <2>1, <2>2
<1>4. \A x, y : Before(s, x, y) <=> Before(r, x, y) \/ (x = h /\ y \in Elems(r))
  <2>1. ASSUME NEW x, NEW y, Before(s, x, y)
        PROVE  Before(r, x, y) \/ (x = h /\ y \in Elems(r))
    <3>1. PICK i, j \in 1..Len(s) : i < j /\ s[i] = x /\ s[j] = y
      BY <2>1 DEF Before
    <3>2. j - 1 \in 1..Len(r) /\ r[j - 1] = y
      BY <1>1, <1>2, <3>1
    <3>3. CASE i = 1
      BY <1>1, <3>1, <3>2, <3>3 DEF Elems
    <3>4. CASE i # 1
      <4>1. i - 1 \in 1..Len(r) /\ r[i - 1] = x /\ i - 1 < j - 1
        BY <1>1, <1>2, <3>1, <3>4
      <4> QED
        BY <3>2, <4>1 DEF Before
    <3> QED
      BY <3>3, <3>4
  <2>2. ASSUME NEW x, NEW y, Before(r, x, y)
        PROVE  Before(s, x, y)
    <3>1. PICK i, j \in 1..Len(r) : i < j /\ r[i] = x /\ r[j] = y
      BY <2>2 DEF Before
    <3>2. i + 1 \in 1..Len(s) /\ j + 1 \in 1..Len(s) /\ i + 1 < j + 1 /\ s[i + 1] = x /\ s[j + 1] = y
      BY <1>1, <1>2, <3>1
    <3> QED
      BY <3>2 DEF Before
  <2>3. ASSUME NEW y, y \in Elems(r)
        PROVE  Before(s, h, y)
    <3>1. PICK j \in 1..Len(r) : r[j] = y
      BY <2>3 DEF Elems
    <3>2. j + 1 \in 1..Len(s) /\ 1 < j + 1 /\ s[j + 1] = y
      BY <1>1, <1>2, <3>1
    <3> QED
      BY <1>1, <1>2, <3>2 DEF Before
  <2> QED
    BY <2>1, <2>2, <2>3
<1>5. \A T, x : FirstOf(s, T, x) <=> x = h \/ (h.t \notin T /\ FirstOf(r, T, x))
  <2>1. ASSUME NEW T, NEW x, FirstOf(s, T, x), x # h
        PROVE  h.t \notin T /\ FirstOf(r, T, x)
    <3>1. PICK i \in 1..Len(s) : s[i] = x /\ \A g \in 1..(i - 1) : s[g].t \notin T
      BY <2>1 DEF FirstOf
    <3>2. i - 1 \in 1..Len(r) /\ r[i - 1] = x /\ 1 \in 1..(i - 1)
      BY <1>1, <1>2, <2>1, <3>1
    <3>3. ASSUME NEW g \in 1..((i - 1) - 1) PROVE r[g].t \notin T
      <4>1. g + 1 \in 1..(i - 1) /\ g \in 1..Len(r)
        BY <1>1, <3>1, <3>2
      <4> QED
        BY <1>1, <3>1, <4>1
    <3> QED
      BY <1>1, <3>1, <3>2, <3>3 DEF FirstOf
  <2>2. ASSUME NEW T, NEW x, h.t \notin T, FirstOf(r, T, x)
        PROVE  FirstOf(s, T, x)
    <3>1. PICK i \in 1..Len(r) : r[i] = x /\ \A g \in 1..(i - 1) : r[g].t \notin T
      BY <2>2 DEF FirstOf
    <3>2. i + 1 \in 1..Len(s) /\ s[i + 1] = x
      BY <1>1, <1>2, <3>1
    <3>3. ASSUME NEW g \in 1..((i + 1) - 1) PROVE s[g].t \notin T
      <4>1. CASE g = 1
        BY <1>1, <2>2, <4>1
      <4>2. CASE g # 1
        <5>1. g - 1 \in 1..(i - 1) /\ g - 1 \in 1..Len(r) /\ g \in 1..Len(s)
          BY <1>1, <3>1, <4>2
        <5> QED
          BY <1>2, <3>1, <4>2, <5>1
      <4> QED
        BY <4>1, <4>2
    <3> QED
      BY <3>2, <3>3 DEF FirstOf
  <2>3. ASSUME NEW T PROVE FirstOf(s, T, h)
    <3>1. \A g \in 1..(1 - 1) : s[g].t \notin T
      OBVIOUS
    <3> QED
      BY <1>1, <1>2, <3>1 DEF FirstOf
  <2> QED
    BY <2>1, <2>2, <2>3
<1>6. \A T, x : LastOf(s, T, x) <=> LastOf(r, T, x) \/ (x = h /\ NoneIn(r, T))
  <2>1. ASSUME NEW T, NEW x, LastOf(s, T, x)
        PROVE  LastOf(r, T, x) \/ (x = h /\ NoneIn(r, T))
    <3>1. PICK i \in 1..Len(s) : s[i] = x /\ \A g \in (i + 1)..Len(s) : s[g].t \notin T
      BY <2>1 DEF LastOf
    <3>2. CASE i = 1
      <4>1. ASSUME NEW y \in Elems(r) PROVE y.t \notin T
        <5>1. PICK j \in 1..Len(r) : r[j] = y
          BY DEF Elems
        <5>2. j + 1 \in (i + 1)..Len(s) /\ s[j + 1] = y
          BY <1>1, <3>2, <5>1
        <5> QED
          BY <3>1, <5>2
      <4> QED
        BY <1>1, <3>1, <3>2, <4>1 DEF NoneIn
    <3>3. CASE i # 1
      <4>1. i - 1 \in 1..Len(r) /\ r[i - 1] = x
        BY <1>1, <1>2, <3>1, <3>3
      <4>2. ASSUME NEW g \in ((i - 1) + 1)..Len(r) PROVE r[g].t \notin T
        <5>1. g \in 1..Len(r) /\ g + 1 \in (i + 1)..Len(s)
          BY <1>1, <3>1, <3>3
        <5> QED
          BY <1>1, <3>1, <5>1
      <4> QED
        BY <4>1, <4>2 DEF LastOf
    <3> QED
      BY <3>2, <3>3
  <2>2. ASSUME NEW T, NEW x, LastOf(r, T, x)
        PROVE  LastOf(s, T, x)
    <3>1. PICK i \in 1..Len(r) : r[i] = x /\ \A g \in (i + 1)..Len(r) : r[g].t \notin T
      BY <2>2 DEF LastOf
    <3>2. i + 1 \in 1..Len(s) /\ s[i + 1] = x
      BY <1>1, <1>2, <3>1
    <3>3. ASSUME NEW g \in ((i + 1) + 1)..Len(s) PROVE s[g].t \notin T
      <4>1. g - 1 \in (i + 1)..Len(r) /\ g \in 1..Len(s) /\ g # 1
        BY <1>1, <3>1
      <4> QED
        BY <1>2, <3>1, <4>1
    <3> QED
      BY <3>2, <3>3 DEF LastOf
  <2>3. ASSUME NEW T, NoneIn(r, T)
        PROVE  LastOf(s, T, h)
    <3>1. ASSUME NEW g \in (1 + 1)..Len(s) PROVE s[g].t \notin T
      <4>1. g \in 1..Len(s) /\ g # 1
        BY <1>1
      <4>2. s[g] \in Elems(r)
        BY <1>2, <4>1 DEF Elems
      <4> QED
        BY <2>3, <4>2 DEF NoneIn
    <3> QED
      BY <1>1, <1>2, <3>1 DEF LastOf
  <2> QED
    BY <2>1, <2>2, <2>3
<1>7. \A T, x, y : Bare(s, T, x, y) <=> Bare(r, T, x, y) \/ (x = h /\ FirstOf(r, T, y))
  <2>1. ASSUME NEW T, NEW x, NEW y, Bare(s, T, x, y)
        PROVE  Bare(r, T, x, y) \/ (x = h /\ FirstOf(r, T, y))
    <3>1. PICK i, j \in 1..Len(s) : /\ i < j /\ s[i] = x /\ s[j] = y
                                    /\ \A g \in (i + 1)..(j - 1) : s[g].t \notin T
      BY <2>1 DEF Bare
    <3>2. j - 1 \in 1..Len(r) /\ r[j - 1] = y
      BY <1>1, <1>2, <3>1
    <3>3. ASSUME NEW g \in i..((j - 1) - 1), g \in 1..Len(r) PROVE r[g].t \notin T
      <4>1. g + 1 \in (i + 1)..(j - 1)
        BY <1>1, <3>1
      <4> QED
        BY <1>1, <3>1, <3>3, <4>1
    <3>4. CASE i = 1
      <4>1. \A g \in 1..((j - 1) - 1) : r[g].t \notin T
        BY <1>1, <3>2, <3>3, <3>4
      <4> QED
        BY <1>1, <3>1, <3>2, <3>4, <4>1 DEF FirstOf
    <3>5. CASE i # 1
      <4>1. i - 1 \in 1..Len(r) /\ r[i - 1] = x /\ i - 1 < j - 1
        BY <1>1, <1>2, <3>1, <3>5
      <4>2. \A g \in ((i - 1) + 1)..((j - 1) - 1) : r[g].t \notin T
        BY <1>1, <3>1, <3>2, <3>3
      <4> QED
        BY <3>2, <4>1, <4>2 DEF Bare
    <3> QED
      BY <3>4, <3>5
  <2>2. ASSUME NEW T, NEW x, NEW y, Bare(r, T, x, y)
        PROVE  Bare(s, T, x, y)
    <3>1. PICK i, j \in 1..Len(r) : /\ i < j /\ r[i] = x /\ r[j] = y
                                    /\ \A g \in (i + 1)..(j - 1) : r[g].t \notin T
      BY <2>2 DEF Bare
    <3>2. i + 1 \in 1..Len(s) /\ j + 1 \in 1..Len(s) /\ i + 1 < j + 1 /\ s[i + 1] = x /\ s[j + 1] = y
      BY <1>1, <1>2, <3>1
    <3>3. ASSUME NEW g \in ((i + 1) + 1)..((j + 1) - 1) PROVE s[g].t \notin T
      <4>1. g - 1 \in (i + 1)..(j - 1) /\ g \in 1..Len(s) /\ g # 1
        BY <1>1, <3>1
      <4> QED
        BY <1>2, <3>1, <4>1
    <3> QED
      BY <3>2, <3>3 DEF Bare
  <2>3. ASSUME NEW T, NEW y, FirstOf(r, T, y)
        PROVE  Bare(s, T, h, y)
    <3>1. PICK j \in 1..Len(r) : r[j] = y /\ \A g \in 1..(j - 1) : r[g].t \notin T
      BY <2>3 DEF FirstOf
    <3>2. j + 1 \in 1..Len(s) /\ 1 < j + 1 /\ s[j + 1] = y
      BY <1>1, <1>2, <3>1
    <3>3. ASSUME NEW g \in (1 + 1)..((j + 1) - 1) PROVE s[g].t \notin T
      <4>1. g - 1 \in 1..(j - 1) /\ g \in 1..Len(s) /\ g # 1
        BY <1>1, <3>1
      <4> QED
        BY <1>2, <3>1, <4>1
    <3> QED
      BY <1>1, <1>2, <3>2, <3>3 DEF Bare
  <2> QED
    BY <2>1, <2>2, <2>3
<1> QED
  BY <1>1, <1>3, <1>4, <1>5, <1>6, <1>7 DEF Tails, h, r

LEMMA ExtendsOf ==
  ASSUME NEW s, IsQueue(s), NEW out, IsQueue(out)
  PROVE  Extends(s, Elems(out), s \o out)
<1> DEFINE q == s \o out
           K == Elems(out)
<1>1. /\ IsQueue(q) /\ Len(s) \in Nat /\ Len(out) \in Nat /\ Len(q) = Len(s) + Len(out)
      /\ \A i \in 1..(Len(s) + Len(out)) : q[i] = IF i <= Len(s) THEN s[i] ELSE out[i - Len(s)]
  <2>1. PICK S : s \in Seq(S)
    BY DEF IsQueue
  <2>2. PICK T : out \in Seq(T)
    BY DEF IsQueue
  <2>3. s \in Seq(S \cup T) /\ out \in Seq(S \cup T)
    BY <2>1, <2>2
  <2> QED
    BY <2>3, ConcatProperties, LenProperties, QueueOf
<1> HIDE DEF q
<1>2. \A x : x \in Elems(s) <=> \E i \in 1..Len(s) : s[i] = x
  BY DEF Elems
<1>3. \A x : x \in K <=> \E i \in 1..Len(out) : out[i] = x
  BY DEF Elems
<1>4. \A x : x \in Elems(q) <=> \E i \in 1..Len(q) : q[i] = x
  BY DEF Elems
<1> HIDE DEF K
<1>5. \A i \in 1..Len(s) : i \in 1..Len(q) /\ q[i] = s[i]
  BY <1>1
<1>6. ASSUME NEW i \in 1..Len(q), i \notin 1..Len(s)
      PROVE  i > Len(s) /\ q[i] \in K
  <2>1. i - Len(s) \in 1..Len(out) /\ q[i] = out[i - Len(s)] /\ i > Len(s)
    BY <1>1, <1>6
  <2> QED
    BY <1>3, <2>1
<1>7. \A i \in 1..Len(out) : i + Len(s) \in 1..Len(q) /\ q[i + Len(s)] = out[i]
  BY <1>1
<1>8. \A x : x \in Elems(q) <=> x \in K \/ x \in Elems(s)
  BY <1>2, <1>3, <1>4, <1>5, <1>6, <1>7
<1>9. ASSUME NEW x, NEW y, Before(q, x, y)
      PROVE  Before(s, x, y) \/ (x \in Elems(q) /\ y \in K)
  <2>1. PICK i, j \in 1..Len(q) : i < j /\ q[i] = x /\ q[j] = y
    BY <1>9 DEF Before
  <2>2. CASE j \in 1..Len(s)
    <3>1. i \in 1..Len(s)
      BY <1>1, <2>1, <2>2
    <3> QED
      BY <1>5, <2>1, <2>2, <3>1 DEF Before
  <2>3. CASE j \notin 1..Len(s)
    BY <1>4, <1>6, <2>1, <2>3
  <2> QED
    BY <2>2, <2>3
<1>10. ASSUME NEW T, NEW x, FirstOf(q, T, x), x \notin K
       PROVE  FirstOf(s, T, x)
  <2>1. PICK i \in 1..Len(q) : q[i] = x /\ \A g \in 1..(i - 1) : q[g].t \notin T
    BY <1>10 DEF FirstOf
  <2>2. i \in 1..Len(s)
    BY <1>6, <1>10, <2>1
  <2>3. \A g \in 1..(i - 1) : g \in 1..Len(s)
    BY <1>1, <2>2
  <2> QED
    BY <1>5, <2>1, <2>2, <2>3 DEF FirstOf
<1>11. ASSUME NEW T, NEW x, LastOf(q, T, x), x \notin K
       PROVE  LastOf(s, T, x)
  <2>1. PICK i \in 1..Len(q) : q[i] = x /\ \A g \in (i + 1)..Len(q) : q[g].t \notin T
    BY <1>11 DEF LastOf
  <2>2. i \in 1..Len(s)
    BY <1>6, <1>11, <2>1
  <2>3. \A g \in (i + 1)..Len(s) : g \in (i + 1)..Len(q) /\ g \in 1..Len(s)
    BY <1>1, <2>2
  <2> QED
    BY <1>5, <2>1, <2>2, <2>3 DEF LastOf
<1>12. ASSUME NEW T, NEW x, NEW y, Bare(q, T, x, y)
       PROVE  Bare(s, T, x, y) \/ (x \in Elems(q) /\ y \in K)
  <2>1. PICK i, j \in 1..Len(q) : /\ i < j /\ q[i] = x /\ q[j] = y
                                  /\ \A g \in (i + 1)..(j - 1) : q[g].t \notin T
    BY <1>12 DEF Bare
  <2>2. CASE j \in 1..Len(s)
    <3>1. i \in 1..Len(s) /\ \A g \in (i + 1)..(j - 1) : g \in 1..Len(s)
      BY <1>1, <2>1, <2>2
    <3> QED
      BY <1>5, <2>1, <2>2, <3>1 DEF Bare
  <2>3. CASE j \notin 1..Len(s)
    BY <1>4, <1>6, <2>1, <2>3
  <2> QED
    BY <2>2, <2>3
<1> QED
  BY <1>1, <1>8, <1>9, <1>10, <1>11, <1>12 DEF Extends, q, K

LEMMA AppendsOf ==
  ASSUME NEW s, IsQueue(s), NEW e
  PROVE  Appends(s, e, s \o <<e>>)
<1> DEFINE q == s \o <<e>>
<1>1. /\ IsQueue(q) /\ Len(s) \in Nat /\ Len(q) = Len(s) + 1 /\ q[Len(s) + 1] = e
      /\ \A i \in 1..Len(s) : q[i] = s[i]
  <2>1. PICK S : s \in Seq(S)
    BY DEF IsQueue
  <2>2. s \in Seq(S \cup {e}) /\ q = Append(s, e)
    BY <2>1, AppendIsConcat
  <2>3. q \in Seq(S \cup {e}) /\ e \in S \cup {e}
    BY <2>2, AppendProperties
  <2>4. IsQueue(q)
    BY <2>3, QueueOf
  <2> QED
    BY <2>2, <2>3, <2>4, AppendProperties, LenProperties
<1> HIDE DEF q
<1>2. \A i : i \in 1..Len(q) <=> i = Len(q) \/ i \in 1..Len(s)
  BY <1>1
<1>3. /\ \A x : x \in Elems(s) <=> \E i \in 1..Len(s) : s[i] = x
      /\ \A x : x \in Elems(q) <=> \E i \in 1..Len(q) : q[i] = x
  BY DEF Elems
<1>4. \A x : x \in Elems(q) <=> x = e \/ x \in Elems(s)
  BY <1>1, <1>2, <1>3
<1>5. \A x, y : Before(q, x, y) <=> Before(s, x, y) \/ (x \in Elems(s) /\ y = e)
  <2>1. ASSUME NEW x, NEW y, Before(q, x, y)
        PROVE  Before(s, x, y) \/ (x \in Elems(s) /\ y = e)
    <3>1. PICK i, j \in 1..Len(q) : i < j /\ q[i] = x /\ q[j] = y
      BY <2>1 DEF Before
    <3>2. i \in 1..Len(s)
      BY <1>1, <3>1
    <3>3. j = Len(q) \/ j \in 1..Len(s)
      BY <1>2, <3>1
    <3> QED
      BY <1>1, <1>3, <3>1, <3>2, <3>3 DEF Before
  <2>2. ASSUME NEW x, NEW y, Before(s, x, y)
        PROVE  Before(q, x, y)
    BY <1>1, <1>2, <2>2 DEF Before
  <2>3. ASSUME NEW x, x \in Elems(s)
        PROVE  Before(q, x, e)
    <3>1. PICK i \in 1..Len(s) : s[i] = x
      BY <2>3, <1>3
    <3>2. i \in 1..Len(q) /\ Len(q) \in 1..Len(q) /\ i < Len(q) /\ q[i] = x /\ q[Len(q)] = e
      BY <1>1, <3>1
    <3> QED
      BY <3>2 DEF Before
  <2> QED
    BY <2>1, <2>2, <2>3
<1>6. \A T, x : FirstOf(q, T, x) <=> FirstOf(s, T, x) \/ (x = e /\ NoneIn(s, T))
  <2>1. ASSUME NEW T, NEW x, FirstOf(q, T, x)
        PROVE  FirstOf(s, T, x) \/ (x = e /\ NoneIn(s, T))
    <3>1. PICK i \in 1..Len(q) : q[i] = x /\ \A g \in 1..(i - 1) : q[g].t \notin T
      BY <2>1 DEF FirstOf
    <3>2. CASE i \in 1..Len(s)
      <4>1. \A g \in 1..(i - 1) : g \in 1..Len(s)
        BY <1>1, <3>2
      <4> QED
        BY <1>1, <3>1, <3>2, <4>1 DEF FirstOf
    <3>3. CASE i = Len(q)
      <4>1. \A g \in 1..Len(s) : g \in 1..(i - 1)
        BY <1>1, <3>3
      <4>2. NoneIn(s, T)
        BY <1>1, <1>3, <3>1, <4>1 DEF NoneIn
      <4> QED
        BY <1>1, <3>1, <3>3, <4>2
    <3> QED
      BY <1>2, <3>1, <3>2, <3>3
  <2>2. ASSUME NEW T, NEW x, FirstOf(s, T, x)
        PROVE  FirstOf(q, T, x)
    <3>1. PICK i \in 1..Len(s) : s[i] = x /\ \A g \in 1..(i - 1) : s[g].t \notin T
      BY <2>2 DEF FirstOf
    <3>2. \A g \in 1..(i - 1) : g \in 1..Len(s)
      BY <1>1, <3>1
    <3> QED
      BY <1>1, <1>2, <3>1, <3>2 DEF FirstOf
  <2>3. ASSUME NEW T, NoneIn(s, T)
        PROVE  FirstOf(q, T, e)
    <3>1. \A g \in 1..(Len(q) - 1) : g \in 1..Len(s) /\ s[g] \in Elems(s)
      BY <1>1, <1>3
    <3>2. \A g \in 1..(Len(q) - 1) : q[g].t \notin T
      BY <1>1, <2>3, <3>1 DEF NoneIn
    <3>3. Len(q) \in 1..Len(q) /\ q[Len(q)] = e
      BY <1>1
    <3> QED
      BY <3>2, <3>3 DEF FirstOf
  <2> QED
    BY <2>1, <2>2, <2>3
<1>7. \A T, x : LastOf(q, T, x) <=> x = e \/ (e.t \notin T /\ LastOf(s, T, x))
  <2>1. ASSUME NEW T, NEW x, LastOf(q, T, x), x # e
        PROVE  e.t \notin T /\ LastOf(s, T, x)
    <3>1. PICK i \in 1..Len(q) : q[i] = x /\ \A g \in (i + 1)..Len(q) : q[g].t \notin T
      BY <2>1 DEF LastOf
    <3>2. i \in 1..Len(s) /\ Len(q) \in (i + 1)..Len(q)
      BY <1>1, <1>2, <2>1, <3>1
    <3>3. \A g \in (i + 1)..Len(s) : g \in (i + 1)..Len(q) /\ g \in 1..Len(s)
      BY <1>1, <3>2
    <3> QED
      BY <1>1, <3>1, <3>2, <3>3 DEF LastOf
  <2>2. ASSUME NEW T, NEW x, e.t \notin T, LastOf(s, T, x)
        PROVE  LastOf(q, T, x)
    <3>1. PICK i \in 1..Len(s) : s[i] = x /\ \A g \in (i + 1)..Len(s) : s[g].t \notin T
      BY <2>2 DEF LastOf
    <3>2. \A g \in (i + 1)..Len(q) : g = Len(q) \/ (g \in (i + 1)..Len(s) /\ g \in 1..Len(s))
      BY <1>1, <3>1
    <3>3. \A g \in (i + 1)..Len(q) : q[g].t \notin T
      BY <1>1, <2>2, <3>1, <3>2
    <3> QED
      BY <1>1, <1>2, <3>1, <3>3 DEF LastOf
  <2>3. ASSUME NEW T PROVE LastOf(q, T, e)
    <3>1. Len(q) \in 1..Len(q) /\ q[Len(q)] = e /\ \A g \in (Len(q) + 1)..Len(q) : FALSE
      BY <1>1
    <3> QED
      BY <3>1 DEF LastOf
  <2> QED
    BY <2>1, <2>2, <2>3
<1>8. \A T, x, y : Bare(q, T, x, y) <=> Bare(s, T, x, y) \/ (LastOf(s, T, x) /\ y = e)
  <2>1. ASSUME NEW T, NEW x, NEW y, Bare(q, T, x, y)
        PROVE  Bare(s, T, x, y) \/ (LastOf(s, T, x) /\ y = e)
    <3>1. PICK i, j \in 1..Len(q) : /\ i < j /\ q[i] = x /\ q[j] = y
                                    /\ \A g \in (i + 1)..(j - 1) : q[g].t \notin T
      BY <2>1 DEF Bare
    <3>2. i \in 1..Len(s)
      BY <1>1, <3>1
    <3>3. CASE j \in 1..Len(s)
      <4>1. \A g \in (i + 1)..(j - 1) : g \in 1..Len(s)
        BY <1>1, <3>2, <3>3
      <4> QED
        BY <1>1, <3>1, <3>2, <3>3, <4>1 DEF Bare
    <3>4. CASE j = Len(q)
      <4>1. \A g \in (i + 1)..Len(s) : g \in (i + 1)..(j - 1) /\ g \in 1..Len(s)
        BY <1>1, <3>2, <3>4
      <4>2. LastOf(s, T, x)
        BY <1>1, <3>1, <3>2, <4>1 DEF LastOf
      <4> QED
        BY <1>1, <3>1, <3>4, <4>2
    <3> QED
      BY <1>2, <3>1, <3>3, <3>4
  <2>2. ASSUME NEW T, NEW x, NEW y, Bare(s, T, x, y)
        PROVE  Bare(q, T, x, y)
    <3>1. PICK i, j \in 1..Len(s) : /\ i < j /\ s[i] = x /\ s[j] = y
                                    /\ \A g \in (i + 1)..(j - 1) : s[g].t \notin T
      BY <2>2 DEF Bare
    <3>2. \A g \in (i + 1)..(j - 1) : g \in 1..Len(s)
      BY <1>1, <3>1
    <3>3. /\ i \in 1..Len(q) /\ j \in 1..Len(q) /\ i < j /\ q[i] = x /\ q[j] = y
          /\ \A g \in (i + 1)..(j - 1) : q[g].t \notin T
      BY <1>1, <1>2, <3>1, <3>2
    <3> QED
      BY <3>3 DEF Bare
  <2>3. ASSUME NEW T, NEW x, LastOf(s, T, x)
        PROVE  Bare(q, T, x, e)
    <3>1. PICK i \in 1..Len(s) : s[i] = x /\ \A g \in (i + 1)..Len(s) : s[g].t \notin T
      BY <2>3 DEF LastOf
    <3>2. \A g \in (i + 1)..(Len(q) - 1) : g \in (i + 1)..Len(s) /\ g \in 1..Len(s)
      BY <1>1, <3>1
    <3>3. /\ i \in 1..Len(q) /\ Len(q) \in 1..Len(q) /\ i < Len(q) /\ q[i] = x /\ q[Len(q)] = e
          /\ \A g \in (i + 1)..(Len(q) - 1) : q[g].t \notin T
      BY <1>1, <3>1, <3>2
    <3> QED
      BY <3>3 DEF Bare
  <2> QED
    BY <2>1, <2>2, <2>3
<1> QED
  BY <1>1, <1>4, <1>5, <1>6, <1>7, <1>8 DEF Appends, q

\* The relations on a queue are about its elements.
LEMMA QueueElements ==
  ASSUME NEW s
  PROVE  /\ \A x, y : Before(s, x, y) => x \in Elems(s) /\ y \in Elems(s)
         /\ \A T, x, y : Bare(s, T, x, y) => Before(s, x, y)
         /\ \A T, x : FirstOf(s, T, x) \/ LastOf(s, T, x) => x \in Elems(s)
  BY DEF Before, Bare, FirstOf, LastOf, Elems

\* What putting x in the queue s, which is then q, keeps of each relation.
Grows(s, x, q) ==
  /\ IsQueue(q)
  /\ \A y : y \in Elems(q) <=> y = x \/ y \in Elems(s)
  /\ \A v, y : Before(q, v, y) => v \in Elems(s) /\ (y = x \/ Before(s, v, y))
  /\ \A v, y : Before(s, v, y) => v \in Elems(s) /\ y \in Elems(s)
  /\ \A T, v, y : Bare(q, T, v, y) =>
       v \in Elems(s) /\ (Bare(s, T, v, y) \/ (y = x /\ LastOf(s, T, v)))
  /\ \A T, v, y : Bare(s, T, v, y) => v \in Elems(s) /\ y \in Elems(s)
  /\ \A T, y : LastOf(q, T, y) => y = x \/ (x.t \notin T /\ LastOf(s, T, y))
  /\ \A T, y : FirstOf(q, T, y) => FirstOf(s, T, y) \/ (y = x /\ NoneIn(s, T))
  /\ \A T, y : FirstOf(s, T, y) \/ LastOf(s, T, y) => y \in Elems(s)
  /\ \A T : NoneIn(q, T) <=> x.t \notin T /\ NoneIn(s, T)
  /\ \A T, U : x.t \notin U /\ Never(s, T, U) => Never(q, T, U)

LEMMA GrowsBy ==
  ASSUME NEW s, IsQueue(s), NEW x
  PROVE  Grows(s, x, s \o <<x>>)
<1> DEFINE q == s \o <<x>>
<1>1. Appends(s, x, q)
  BY AppendsOf
<1> HIDE DEF q
<1>2. /\ \A T : NoneIn(q, T) <=> x.t \notin T /\ NoneIn(s, T)
      /\ \A T, U : x.t \notin U /\ Never(s, T, U) => Never(q, T, U)
  BY <1>1, QueueElements DEF Appends, NoneIn, Never
<1> QED
  BY <1>1, <1>2, QueueElements DEF Appends, Grows, q

\* What taking h from the queue s, which is then r, keeps.
Shrinks(s, h, r) ==
  /\ IsQueue(r)
  /\ h \in Elems(s) /\ Elems(r) \subseteq Elems(s)
  /\ \A y \in Elems(s) : y = h \/ y \in Elems(r)
  /\ \A y \in Elems(r) : Before(s, h, y)
  /\ \A v, y : Before(r, v, y) => Before(s, v, y)
  /\ \A T, v, y : Bare(r, T, v, y) => Bare(s, T, v, y)
  /\ \A T, y : FirstOf(r, T, y) => Bare(s, T, h, y) /\ (h.t \notin T => FirstOf(s, T, y))
  /\ \A T, y : LastOf(r, T, y) => LastOf(s, T, y)
  /\ \A T : FirstOf(s, T, h) /\ (NoneIn(r, T) => LastOf(s, T, h))
  /\ \A T : NoneIn(s, T) <=> h.t \notin T /\ NoneIn(r, T)
  /\ \A T, U : Never(s, T, U) => Never(r, T, U) /\ (h.t \in T => NoneIn(r, U))

LEMMA ShrinksTo ==
  ASSUME NEW s, IsQueue(s), s # <<>>
  PROVE  Shrinks(s, Head(s), Tail(s))
<1> DEFINE h == Head(s)
           r == Tail(s)
<1>1. Tails(s, h, r)
  BY TailsOf
<1> HIDE DEF h, r
<1>2. /\ \A T : NoneIn(s, T) <=> h.t \notin T /\ NoneIn(r, T)
      /\ \A T, U : Never(s, T, U) => Never(r, T, U) /\ (h.t \in T => NoneIn(r, U))
  BY <1>1 DEF Tails, NoneIn, Never
<1> QED
  BY <1>1, <1>2 DEF Tails, Shrinks, h, r

-----------------------------------------------------------------------------
(* LE Secure Connections: the invariant                                    *)

LEMMA TakenByCentral ==
  ASSUME NEW c, NEW p, NEW a, NEW b, NEW k, NEW z, NEW n, NEW u, NEW d, NEW o,
         Lesc(c, p, a, b, k, z, n, u, d, o),
         NEW h, NEW r, Shrinks(a, h, r), h.t \notin EncRsp
  PROVE  Lesc(c, p, r, b, k, z, n, u, d, o)
<1>1. /\ Elems(r) \subseteq Elems(a) /\ \A x, y : Before(r, x, y) => Before(a, x, y)
      /\ \A T : NoneIn(a, T) => NoneIn(r, T)
      /\ NoneIn(r, EncRsp) => NoneIn(a, EncRsp)
      /\ \A T, U : Never(a, T, U) => Never(r, T, U)
      /\ IsQueue(r)
  BY DEF Shrinks
<1>2. ToCentral(r, n, u, o)
  BY <1>1 DEF Lesc, ToCentral
<1>3. Requests(c, p, r, b, n)
  BY <1>1 DEF Lesc, Requests
<1>4. Old(c, p, r, b)
  BY <1>1 DEF Lesc, Old, NothingOld
<1>5. Checks(c, p, r, b, k)
  BY <1>1 DEF Lesc, Checks
<1>6. Distribution(c, p, r, b, o)
  BY <1>1 DEF Lesc, Distribution
<1>7. Encryption(r, b, k, z)
  BY <1>1 DEF Lesc, Encryption
<1> QED
  BY <1>1, <1>2, <1>3, <1>4, <1>5, <1>6, <1>7 DEF Lesc

LEMMA TakenByPeripheral ==
  ASSUME NEW c, NEW p, NEW a, NEW b, NEW k, NEW z, NEW n, NEW u, NEW d, NEW o,
         Lesc(c, p, a, b, k, z, n, u, d, o),
         NEW h, NEW r, Shrinks(b, h, r),
         h.t \in Req  => p.state = "idle",
         h.t \in Pk   => p.state # "pairing_req",
         h.t \in Turn => p.state # "confirm_sent_stage"
  PROVE  Lesc(c, p, a, r, k, z, n, u, d, o)
<1>1. /\ Elems(r) \subseteq Elems(b) /\ \A x, y : Before(r, x, y) => Before(b, x, y)
      /\ \A T : NoneIn(b, T) => NoneIn(r, T)
      /\ \A T, U : Never(b, T, U) => Never(r, T, U)
      /\ IsQueue(r)
      /\ \A T, x : LastOf(r, T, x) => LastOf(b, T, x)
      /\ \A T, x, y : Bare(r, T, x, y) => Bare(b, T, x, y)
      /\ \A T, x : h.t \notin T /\ FirstOf(r, T, x) => FirstOf(b, T, x)
      /\ \A T : h.t \notin T /\ NoneIn(r, T) => NoneIn(b, T)
  BY DEF Shrinks
<1>2. ToPeripheral(r, n, u, o)
  BY <1>1 DEF Lesc, ToPeripheral
<1>3. p.state = "idle" => p.id = 0
  BY DEF Lesc, PeripheralOK
<1>4. Requests(c, p, a, r, n)
  BY <1>1, <1>3 DEF Lesc, Requests
<1>5. PublicKeys(c, p, r)
  BY <1>1, <1>3 DEF Lesc, PublicKeys
<1>6. RoundsOK(c, p, r)
  BY <1>1 DEF Lesc, RoundsOK
<1>7. Old(c, p, a, r)
  BY <1>1 DEF Lesc, Old, NothingOld
<1>8. Checks(c, p, a, r, k)
  BY <1>1 DEF Lesc, Checks
<1>9. Distribution(c, p, a, r, o)
  BY <1>1 DEF Lesc, Distribution
<1>10. Encryption(a, r, k, z)
  BY <1>1 DEF Lesc, Encryption
<1>11. BondsOK(c, p, r, d, u, o)
  BY <1>1 DEF Lesc, BondsOK, Stored
<1> QED
  BY <1>1, <1>2, <1>4, <1>5, <1>6, <1>7, <1>8, <1>9, <1>10, <1>11 DEF Lesc

\* What the users do is remembered.
LEMMA MoreConsent ==
  ASSUME NEW c, NEW p, NEW a, NEW b, NEW k, NEW z, NEW n, NEW u, NEW d, NEW o,
         Lesc(c, p, a, b, k, z, n, u, d, o), NEW w, u \subseteq w
  PROVE  Lesc(c, p, a, b, k, z, n, w, d, o)
<1>1. /\ \A q, i, v : Consented(q, i, v, u, o) => Consented(q, i, v, w, o)
      /\ \A i : BothDid(i, u, o) => BothDid(i, w, o)
  BY DEF Consented, BothDid
<1>2. CentralOK(c, n, w, o) /\ PeripheralOK(p, n, w, o)
  BY <1>1 DEF Lesc, CentralOK, PeripheralOK
<1>3. \A v, q, role : CheckOK(v, q, role, n, u, o) => CheckOK(v, q, role, n, w, o)
  BY <1>1 DEF CheckOK
<1>4. ToCentral(a, n, w, o) /\ ToPeripheral(b, n, w, o)
  BY <1>3 DEF Lesc, ToCentral, ToPeripheral
<1>5. BondsOK(c, p, b, d, w, o)
  BY <1>1 DEF Lesc, BondsOK, StoredOK
<1> QED
  BY <1>2, <1>4, <1>5 DEF Lesc

\* A side that has reset its state.
Rested(s) ==
  /\ s.state = "idle" /\ s.id = 0 /\ s.rpar = NoParameters /\ s.peer = None
  /\ Keyless(s)

LEMMA PeripheralRests ==
  ASSUME NEW c, NEW p, NEW a, NEW b, NEW k, NEW z, NEW n, NEW u, NEW d, NEW o,
         Lesc(c, p, a, b, k, z, n, u, d, o), NEW s, Rested(s),
         \A q \in Peers : \A e \in d[q] : e.id \in 1..n
  PROVE  Lesc(c, s, a, b, k, z, n, u, d, o)
<1> USE DEF Rested
<1>1. PeripheralOK(s, n, u, o)
  BY DEF Lesc, PeripheralOK, Asked, Late, KeysKnown, Keyless
<1>2. /\ p.id \in 0..n /\ n \in Nat
      /\ c.state = "idle" <=> c.id = 0
      /\ c.state \in Over \cup Mid => c.state # "idle"
  BY DEF Lesc, PeripheralOK, CentralOK, Over, Mid
<1>3. Requests(c, s, a, b, n)
  <2>1. \A x \in Elems(b) : x.t \in Req => x.v.id > 0
    BY DEF Lesc, ToPeripheral
  <2> QED
    BY <2>1 DEF Lesc, Requests
<1>4. PublicKeys(c, s, b)
  BY DEF Lesc, PublicKeys
<1>5. RoundsOK(c, s, b)
  BY DEF Lesc, RoundsOK
<1>6. Old(c, s, a, b)
  BY <1>2 DEF Lesc, Old, NothingOld, Late
<1>7. Checks(c, s, a, b, k)
  BY <1>2 DEF Lesc, Checks
<1>8. Distribution(c, s, a, b, o)
  BY <1>2 DEF Lesc, Distribution
<1>9. BondsOK(c, s, b, d, u, o)
  BY <1>2 DEF Lesc, BondsOK, StoredOK, Stored
<1> QED
  BY <1>1, <1>3, <1>4, <1>5, <1>6, <1>7, <1>8, <1>9 DEF Lesc

LEMMA CentralRests ==
  ASSUME NEW c, NEW p, NEW a, NEW b, NEW k, NEW z, NEW n, NEW u, NEW d, NEW o,
         Lesc(c, p, a, b, k, z, n, u, d, o), NEW s, Rested(s),
         \A q \in Peers : \A e \in d[q] : e.id \in 1..n
  PROVE  Lesc(s, p, a, b, k, z, n, u, d, o)
<1> USE DEF Rested
<1>1. CentralOK(s, n, u, o)
  BY DEF Lesc, CentralOK, Mid, Over, KeysKnown, Keyless
<1>2. p.id = 0 => p.state \notin Late
  BY DEF Lesc, PeripheralOK, Late
<1>3. ~Linked(s) /\ s.state \notin Mid /\ s.state \notin Over /\ s.state \notin Turned
  BY DEF Linked, Mid, Over, Turned
<1>4. \A x \in Elems(a) : ~Committed(x, s.id)
  <2>1. \A x \in Elems(a) : x.t \in Cfm => \E i \in 1..n : Commits(x.v, i)
    BY DEF Lesc, ToCentral
  <2>2. \A x, i : i \in 1..n /\ Commits(x.v, i) => ~Commits(x.v, 0)
    BY DEF Commits
  <2> QED
    BY <2>1, <2>2 DEF Committed
<1>5. Requests(s, p, a, b, n)
  BY <1>3, <1>4 DEF Lesc, Requests
<1>6. PublicKeys(s, p, b)
  BY DEF Lesc, PublicKeys
<1>7. RoundsOK(s, p, b)
  BY <1>3 DEF Lesc, RoundsOK
<1>8. Old(s, p, a, b)
  BY <1>3 DEF Lesc, Old
<1>9. Checks(s, p, a, b, k)
  BY <1>3 DEF Lesc, Checks
<1>10. Distribution(s, p, a, b, o)
  BY <1>3 DEF Lesc, Distribution
<1>11. BondsOK(s, p, b, d, u, o)
  BY <1>3 DEF Lesc, BondsOK, StoredOK, Stored
<1> QED
  BY <1>1, <1>5, <1>6, <1>7, <1>8, <1>9, <1>10, <1>11 DEF Lesc

\* PDUs whose order with others does not matter.
LEMMA SentPlainlyToPeripheral ==
  ASSUME NEW c, NEW p, NEW a, NEW b, NEW k, NEW z, NEW n, NEW u, NEW d, NEW o,
         Lesc(c, p, a, b, k, z, n, u, d, o),
         NEW x, NEW q, Grows(b, x, q), x.t \in {"failed", "random"}
  PROVE  Lesc(c, p, a, q, k, z, n, u, d, o)
<1>1. /\ x.t \in ToP /\ x.t \notin EncReq /\ x.t \notin Dh
      /\ x.t \notin Enc /\ x.t \notin Rsp /\ x.t \notin Req /\ x.t \notin Pk /\ x.t \notin Cfm
      /\ x.t \notin Keys
  BY DEF ToP, Req, Pk, Cfm, Dh, EncReq, StartRsp, Keys, Enc, Rsp
<1>2. Grows(b, x, q)
  OBVIOUS
<1>3. ToPeripheral(q, n, u, o)
  BY <1>1, <1>2 DEF Grows, Lesc, ToPeripheral
<1>4. Requests(c, p, a, q, n)
  <2>1. x.t \notin EncReq \cup Dh \cup Keys
    BY <1>1
  <2> QED
    BY <1>1, <1>2, <2>1 DEF Grows, Lesc, Requests
<1>5. PublicKeys(c, p, q)
  BY <1>1, <1>2 DEF Grows, Lesc, PublicKeys
<1>6. RoundsOK(c, p, q)
  BY <1>1, <1>2 DEF Grows, Lesc, RoundsOK
<1>7. Old(c, p, a, q)
  BY <1>1, <1>2 DEF Grows, Lesc, Old, NothingOld
<1>8. Checks(c, p, a, q, k)
  BY <1>1, <1>2 DEF Grows, Lesc, Checks
<1>9. Distribution(c, p, a, q, o)
  BY <1>1, <1>2 DEF Grows, Lesc, Distribution
<1>10. Encryption(a, q, k, z)
  BY <1>1, <1>2 DEF Grows, Lesc, Encryption
<1>11. BondsOK(c, p, q, d, u, o)
  BY <1>1, <1>2 DEF Grows, Lesc, BondsOK, Stored
<1> QED
  BY <1>2, <1>3, <1>4, <1>5, <1>6, <1>7, <1>8, <1>9, <1>10, <1>11 DEF Grows, Lesc

LEMMA SentPlainlyToCentral ==
  ASSUME NEW c, NEW p, NEW a, NEW b, NEW k, NEW z, NEW n, NEW u, NEW d, NEW o,
         Lesc(c, p, a, b, k, z, n, u, d, o),
         NEW x, NEW q, Grows(a, x, q), x.t \in {"failed", "random", "security_request"} \cup Pk,
         x.t \in Pk => \E i \in 1..n : x.v = <<P, i>>
  PROVE  Lesc(c, p, q, b, k, z, n, u, d, o)
<1>1. /\ x.t \in ToC /\ x.t \notin EncRsp /\ x.t \notin Dh /\ x.t \notin StartReq /\ x.t \notin StartRsp
      /\ x.t \notin Enc /\ x.t \notin Rsp /\ x.t \notin Cfm /\ x.t \notin Keys /\ x.t \notin Started
  BY DEF ToC, Rsp, Pk, Cfm, Dh, EncRsp, StartReq, StartRsp, Keys, Enc, Started
<1>2. Grows(a, x, q)
  OBVIOUS
<1>3. ToCentral(q, n, u, o)
  BY <1>1, <1>2 DEF Grows, Lesc, ToCentral
<1>4. Requests(c, p, q, b, n)
  BY <1>1, <1>2 DEF Grows, Lesc, Requests, Committed
<1>5. Old(c, p, q, b)
  BY <1>1, <1>2 DEF Grows, Lesc, Old, NothingOld, Committed
<1>6. Checks(c, p, q, b, k)
  BY <1>1, <1>2 DEF Grows, Lesc, Checks
<1>7. Distribution(c, p, q, b, o)
  BY <1>1, <1>2 DEF Grows, Lesc, Distribution
<1>8. Encryption(q, b, k, z)
  <2>1. x.t \notin EncRsp \cup StartReq \cup Enc
    BY <1>1
  <2> QED
    BY <1>1, <1>2, <2>1 DEF Grows, Lesc, Encryption
<1> QED
  BY <1>2, <1>3, <1>4, <1>5, <1>6, <1>7, <1>8 DEF Grows, Lesc

-----------------------------------------------------------------------------
(* LE Secure Connections: what a central does keeps the invariant          *)

\* The central asks for a pairing.
LEMMA CentralAsks ==
  ASSUME NEW c, NEW p, NEW a, NEW b, NEW k, NEW z, NEW n, NEW u, NEW d, NEW o,
         Lesc(c, p, a, b, k, z, n, u, d, o),
         \A g \in Peers : \A e \in d[g] : e.id \in 1..n,
         NEW s, s.state = "pairing_rsp", s.id = n + 1, s.ipar = o[C], s.rpar = NoParameters, Keyless(s),
         NEW x, x.t \in Req, x.v.id = n + 1, x.v.par = o[C],
         NEW q, Grows(b, x, q)
  PROVE  Lesc(s, p, a, q, k, z, n + 1, u, d, o)
<1>1. /\ n \in Nat /\ n + 1 \in Nat /\ n + 1 # 0 /\ p.id \in 0..n /\ p.id # n + 1
      /\ 0..n \subseteq 0..(n + 1) /\ 1..n \subseteq 1..(n + 1)
      /\ \A i \in 1..n : i # n + 1
  BY DEF Lesc, PeripheralOK
<1>2. /\ x.t \in ToP /\ x.t \notin EncReq /\ x.t \notin Dh /\ x.t \in Turn
      /\ x.t \notin Enc /\ x.t \notin Rsp /\ x.t \notin Pk /\ x.t \notin Cfm
      /\ x.t \notin Keys /\ x.t \notin EncReq \cup Dh \cup Keys
  BY DEF ToP, Req, Pk, Cfm, Dh, EncReq, StartRsp, Keys, Enc, Rsp, Turn
<1>3. Grows(b, x, q)
  OBVIOUS
<1>4. /\ s.state \notin Mid /\ s.state \notin Over /\ ~Linked(s) /\ s.state \in Turned
  BY DEF Mid, Over, Linked, Turned
<1>5. CentralOK(s, n + 1, u, o)
  BY <1>1, <1>4 DEF CentralOK, KeysKnown, Keyless, Mid, Over
<1>6. PeripheralOK(p, n + 1, u, o)
  BY <1>1 DEF Lesc, PeripheralOK
<1>7. \A v, g, role : CheckOK(v, g, role, n, u, o) => CheckOK(v, g, role, n + 1, u, o)
  BY <1>1 DEF CheckOK
<1>8. ToCentral(a, n + 1, u, o)
  BY <1>1, <1>7 DEF Lesc, ToCentral
<1>9. ToPeripheral(q, n + 1, u, o)
  BY <1>1, <1>2, <1>3, <1>7 DEF Grows, Lesc, ToPeripheral
<1>10. \A y \in Elems(b) : y.t \in Req => y.v.id \in 1..n
  BY DEF Lesc, ToPeripheral
<1>11. \A y \in Elems(a) : ~Committed(y, n + 1)
  <2>1. \A y \in Elems(a) : y.t \in Cfm => \E i \in 1..n : Commits(y.v, i)
    BY DEF Lesc, ToCentral
  <2>2. \A y, i : i \in 1..n /\ Commits(y.v, i) => ~Commits(y.v, n + 1)
    BY <1>1 DEF Commits
  <2> QED
    BY <2>1, <2>2 DEF Committed
<1>12. Requests(s, p, a, q, n + 1)
  <2>1. \A v, y \in Elems(q) : Before(q, v, y) /\ v.t \in Req /\ y.t \in Req => v.v.id < y.v.id
    BY <1>1, <1>3, <1>10 DEF Grows, Lesc, Requests
  <2>2. \A y \in Elems(q) : y.t \in Req => y.v.id > p.id /\ (LastOf(q, Req, y) => y.v.id = n + 1)
    BY <1>1, <1>3 DEF Grows, Lesc, Requests
  <2>3. ~NoneIn(q, Req)
    BY <1>3 DEF Grows
  <2> QED
    BY <1>2, <1>3, <1>4, <1>11, <2>1, <2>2, <2>3 DEF Grows, Lesc, Requests
<1>13. PublicKeys(s, p, q)
  <2>1. \A y \in Elems(q) : y.t \in Pk => y.v # <<C, n + 1>>
    <3>1. \A y \in Elems(b) : y.t \in Pk => \E i \in 1..n : y.v = <<C, i>>
      BY DEF Lesc, ToPeripheral
    <3> QED
      BY <1>1, <1>2, <1>3, <3>1 DEF Grows
  <2> QED
    BY <1>1, <1>2, <1>3, <2>1 DEF Grows, Lesc, PublicKeys
<1>14. RoundsOK(s, p, q)
  BY <1>2, <1>3, <1>4 DEF Grows, Lesc, RoundsOK
<1>15. Old(s, p, a, q)
  BY <1>2, <1>3, <1>4 DEF Grows, Lesc, Old
<1>16. Checks(s, p, a, q, k)
  <2>1. \A y \in Elems(a) \cup Elems(b) : y.t \in Dh => y.v[2][2] # Pair(n + 1)
    <3>1. \A i \in 1..n : Pair(i) # Pair(n + 1)
      BY <1>1 DEF Pair, C, P
    <3> QED
      BY <3>1 DEF Lesc, ToCentral, ToPeripheral, CheckOK
  <2> QED
    BY <1>1, <1>2, <1>3, <1>4, <2>1 DEF Grows, Lesc, Checks
<1>17. Distribution(s, p, a, q, o)
  BY <1>1, <1>2, <1>3, <1>4 DEF Grows, Lesc, Distribution
<1>18. Encryption(a, q, k, z)
  BY <1>2, <1>3 DEF Grows, Lesc, Encryption
<1>19. BondsOK(s, p, q, d, u, o)
  <2>1. StoredOK(s, C, P, d, u, o)
    BY DEF Lesc, BondsOK, StoredOK
  <2>2. Stored(s, p, q, d)
    BY <1>1, <1>3 DEF Grows, Lesc, BondsOK, Stored
  <2> QED
    BY <2>1, <2>2 DEF Lesc, BondsOK
<1> QED
  BY <1>1, <1>3, <1>5, <1>6, <1>8, <1>9, <1>12, <1>13, <1>14, <1>15, <1>16, <1>17, <1>18, <1>19 DEF Grows, Lesc

\* The central answers the parameters of the peripheral with its public key.
LEMMA CentralShowsKey ==
  ASSUME NEW c, NEW p, NEW a, NEW b, NEW k, NEW z, NEW n, NEW u, NEW d, NEW o,
         Lesc(c, p, a, b, k, z, n, u, d, o), c.state = "pairing_rsp",
         NoneIn(b, EncReq), NoneIn(b, Dh), NoneIn(a, Started), p.state \notin Late,
         NEW s, s.state = "pubkey_sent", s.id = c.id, s.ipar = c.ipar, s.rpar = o[P],
         s.method = Chosen(o), s.own = <<C, c.id>>, Keyless(s),
         NEW x, x.t \in Pk, x.v = <<C, c.id>>,
         NEW q, Grows(b, x, q)
  PROVE  Lesc(s, p, a, q, k, z, n, u, d, o)
<1>1. /\ n \in Nat /\ c.id \in 1..n /\ c.id # 0 /\ c.id = n
  BY DEF Lesc, CentralOK
<1>2. /\ x.t \in ToP /\ x.t \notin EncReq /\ x.t \notin Dh /\ x.t \notin Turn
      /\ x.t \notin Enc /\ x.t \notin Rsp /\ x.t \notin Req /\ x.t \notin Cfm
      /\ x.t \notin Keys /\ x.t \notin EncReq \cup Dh \cup Keys
  BY DEF ToP, Req, Pk, Cfm, Dh, EncReq, StartRsp, Keys, Enc, Rsp, Turn
<1>3. Grows(b, x, q)
  OBVIOUS
<1>4. /\ s.state \in Mid /\ s.state \notin Over /\ ~Linked(s) /\ s.state \in Turned /\ c.state \in Turned
      /\ s.state # "dhkey_sent" /\ s.state # "pairing_rsp"
  BY DEF Mid, Over, Linked, Turned
<1>5. CentralOK(s, n, u, o)
  BY <1>1, <1>4 DEF Lesc, CentralOK, KeysKnown, Keyless
<1>6. ToPeripheral(q, n, u, o)
  BY <1>1, <1>2, <1>3 DEF Grows, Lesc, ToPeripheral
<1>7. \A y \in Elems(a) : ~Committed(y, c.id)
  BY DEF Lesc, Requests
<1>8. \A y \in Elems(b) : y.t \in Pk => y.v # <<C, c.id>>
  BY DEF Lesc, PublicKeys
<1>9. p.id = c.id => p.peer = None
  BY DEF Lesc, PublicKeys
<1>10. Requests(s, p, a, q, n)
  BY <1>2, <1>3, <1>4, <1>7 DEF Grows, Lesc, Requests
<1>11. PublicKeys(s, p, q)
  <2>1. \A y \in Elems(q) : y.t \in Pk /\ FirstOf(q, Req, y) => p.id \in {0, y.v[2]}
    BY <1>1, <1>3, QueueElements DEF Grows, Lesc, PublicKeys, Requests
  <2>2. \A v, y \in Elems(q) : Bare(q, Req, v, y) /\ v.t \in Req /\ y.t \in Pk => y.v[2] = v.v.id
    <3>1. ASSUME NEW v \in Elems(q), NEW y \in Elems(q), Bare(q, Req, v, y), v.t \in Req, y.t \in Pk
          PROVE  y.v[2] = v.v.id
      <4>1. CASE Bare(b, Req, v, y)
        BY <1>3, <3>1, <4>1 DEF Grows, Lesc, PublicKeys
      <4>2. CASE y = x /\ LastOf(b, Req, v)
        <5>1. v \in Elems(b) /\ v.v.id = n
          BY <1>3, <3>1, <4>2 DEF Grows, Lesc, Requests
        <5> QED
          BY <1>1, <4>2, <5>1
      <4> QED
        BY <1>3, <3>1, <4>1, <4>2 DEF Grows
    <3> QED
      BY <3>1
  <2> QED
    BY <1>4, <2>1, <2>2 DEF PublicKeys
<1>12. RoundsOK(s, p, q)
  BY <1>2, <1>3, <1>4 DEF Grows, Lesc, RoundsOK
<1>13. Old(s, p, a, q)
  <2>1. \A v, y \in Elems(q) : Before(q, v, y) /\ v.t \in Pk /\ v.v = <<C, s.id>> => y.t \notin Enc
    BY <1>2, <1>3, <1>8 DEF Grows
  <2>2. NothingOld(s, p, a, q)
    BY <1>2, <1>3, <1>4, <1>7, <1>9, <2>1 DEF Grows, NothingOld
  <2> QED
    BY <1>2, <1>3, <2>2 DEF Grows, Lesc, Old
<1>14. Checks(s, p, a, q, k)
  <2>1. \A y \in Elems(a) : y.t \in Dh => y.v[2][2] # Pair(c.id)
    BY <1>1, <1>4 DEF Lesc, Checks, Over
  <2> QED
    BY <1>1, <1>2, <1>3, <1>4, <2>1 DEF Grows, Lesc, Checks, NoneIn
<1>15. Distribution(s, p, a, q, o)
  BY <1>2, <1>3, <1>4 DEF Grows, Lesc, Distribution
<1>16. Encryption(a, q, k, z)
  BY <1>2, <1>3 DEF Grows, Lesc, Encryption
<1>17. BondsOK(s, p, q, d, u, o)
  <2>1. StoredOK(s, C, P, d, u, o)
    BY DEF Lesc, BondsOK, StoredOK
  <2>2. Stored(s, p, q, d)
    BY <1>1, <1>2, <1>3 DEF Grows, Lesc, BondsOK, Stored, Over
  <2> QED
    BY <2>1, <2>2 DEF Lesc, BondsOK
<1> QED
  BY <1>1, <1>3, <1>5, <1>6, <1>10, <1>11, <1>12, <1>13, <1>14, <1>15, <1>16, <1>17 DEF Grows, Lesc

\* The central keeps the public key of the peripheral.
LEMMA CentralKeepsKey ==
  ASSUME NEW c, NEW p, NEW a, NEW b, NEW k, NEW z, NEW n, NEW u, NEW d, NEW o,
         Lesc(c, p, a, b, k, z, n, u, d, o), c.state = "pubkey_sent",
         NEW s, s.state = "pubkey_recvd", s.id = c.id, s.ipar = c.ipar, s.rpar = c.rpar,
         s.method = c.method, s.own = c.own, Keyless(s), \E i \in 1..n : s.peer = <<P, i>>,
         s.method.kind # "passkey"
  PROVE  Lesc(s, p, a, b, k, z, n, u, d, o)
<1>1. /\ s.state \in Mid /\ c.state \in Mid /\ s.state \notin Over /\ c.state \notin Over
      /\ ~Linked(s) /\ s.state \in Turned /\ c.state \in Turned
  BY DEF Mid, Over, Linked, Turned
<1>2. CentralOK(s, n, u, o)
  BY <1>1 DEF Lesc, CentralOK, KeysKnown, Keyless
<1>3. Requests(s, p, a, b, n)
  BY <1>1 DEF Lesc, Requests
<1>4. PublicKeys(s, p, b)
  BY DEF Lesc, PublicKeys
<1>5. RoundsOK(s, p, b)
  BY <1>1 DEF Lesc, RoundsOK
<1>6. Old(s, p, a, b)
  BY <1>1 DEF Lesc, Old, NothingOld
<1>7. Checks(s, p, a, b, k)
  BY <1>1 DEF Lesc, Checks
<1>8. Distribution(s, p, a, b, o)
  BY <1>1 DEF Lesc, Distribution
<1>9. BondsOK(s, p, b, d, u, o)
  BY <1>1 DEF Lesc, BondsOK, StoredOK, Stored
<1> QED
  BY <1>2, <1>3, <1>4, <1>5, <1>6, <1>7, <1>8, <1>9 DEF Lesc

\* The central commits to a bit of the passkey.
LEMMA CentralCommits ==
  ASSUME NEW c, NEW p, NEW a, NEW b, NEW k, NEW z, NEW n, NEW u, NEW d, NEW o,
         Lesc(c, p, a, b, k, z, n, u, d, o), c.state \in {"pubkey_sent", "random_sent_stage"},
         NEW s, s.state = "confirm_sent_stage", s.id = c.id, s.ipar = c.ipar, s.rpar = c.rpar,
         s.method = c.method, s.own = c.own, Keyless(s), \E i \in 1..n : s.peer = <<P, i>>,
         s.iconf[2] = <<C, c.id>> \/ s.rconf[2] = <<C, c.id>>,
         s.method.kind = "passkey", Consented(C, c.id, s.passkey, u, o),
         NEW x, x.t \in Cfm, NEW q, Grows(b, x, q)
  PROVE  Lesc(s, p, a, q, k, z, n, u, d, o)
<1>1. /\ s.state \in Mid /\ c.state \in Mid /\ s.state \notin Over /\ c.state \notin Over
      /\ ~Linked(s) /\ s.state \notin Turned /\ c.state \in Turned
      /\ c.state # "dhkey_sent"
  BY DEF Mid, Over, Linked, Turned
<1>2. /\ x.t \in ToP /\ x.t \notin EncReq /\ x.t \notin Dh /\ x.t \notin Turn
      /\ x.t \notin Enc /\ x.t \notin Rsp /\ x.t \notin Req /\ x.t \notin Pk
      /\ x.t \notin Keys /\ x.t \notin EncReq \cup Dh \cup Keys
  BY DEF ToP, Req, Pk, Cfm, Dh, EncReq, StartRsp, Keys, Enc, Rsp, Turn
<1>3. CentralOK(s, n, u, o)
  BY <1>1 DEF Lesc, CentralOK, KeysKnown, Keyless
<1>4. ToPeripheral(q, n, u, o)
  BY <1>2 DEF Grows, Lesc, ToPeripheral
<1>5. Requests(s, p, a, q, n)
  BY <1>1, <1>2 DEF Grows, Lesc, Requests
<1>6. PublicKeys(s, p, q)
  BY <1>1, <1>2 DEF Grows, Lesc, PublicKeys
<1>7. RoundsOK(s, p, q)
  BY <1>1, <1>2 DEF Grows, Lesc, RoundsOK
<1>8. Old(s, p, a, q)
  BY <1>1, <1>2 DEF Grows, Lesc, Old, NothingOld
<1>9. Checks(s, p, a, q, k)
  BY <1>1, <1>2 DEF Grows, Lesc, Checks
<1>10. Distribution(s, p, a, q, o)
  BY <1>1, <1>2 DEF Grows, Lesc, Distribution
<1>11. Encryption(a, q, k, z)
  BY <1>2 DEF Grows, Lesc, Encryption
<1>12. BondsOK(s, p, q, d, u, o)
  BY <1>1, <1>2 DEF Grows, Lesc, BondsOK, StoredOK, Stored
<1> QED
  BY <1>3, <1>4, <1>5, <1>6, <1>7, <1>8, <1>9, <1>10, <1>11, <1>12 DEF Grows, Lesc

\* What a commitment of the peripheral to the central's own pairing tells.
Fulfilled(a, b) == NoneIn(b, Req) /\ NoneIn(a, Rsp) /\ NoneIn(b, Enc) /\ NoneIn(a, StartRsp)

\* The central has a commitment, and shows its random value.
LEMMA CentralReveals ==
  ASSUME NEW c, NEW p, NEW a, NEW b, NEW k, NEW z, NEW n, NEW u, NEW d, NEW o,
         Lesc(c, p, a, b, k, z, n, u, d, o), c.state \in {"pubkey_recvd", "confirm_sent_stage"},
         NEW s, s.state \in {"random_sent", "random_sent_stage"},
         s.id = c.id, s.ipar = c.ipar, s.rpar = c.rpar,
         s.method = c.method, s.own = c.own, s.peer = c.peer, Keyless(s),
         s.rconf[2] = <<C, c.id>> \/ \E i \in 1..n : Commits(s.rconf, i),
         Commits(s.rconf, c.id) => Fulfilled(a, b),
         s.state = "random_sent" => s.method.kind # "passkey" \/ s.rconf[2] = <<C, c.id>>,
         s.state = "random_sent_stage" =>
           s.method.kind = "passkey" /\ Consented(C, c.id, s.passkey, u, o),
         NEW x, x.t = "random", NEW q, Grows(b, x, q)
  PROVE  Lesc(s, p, a, q, k, z, n, u, d, o)
<1>1. /\ s.state \in Mid /\ c.state \in Mid /\ s.state \notin Over /\ c.state \notin Over
      /\ c.state # "dhkey_sent" /\ s.state # "dhkey_sent"
      /\ Linked(s) <=> Commits(s.rconf, c.id)
  BY DEF Mid, Over, Linked, Turned
<1>2. /\ x.t \in ToP /\ x.t \notin EncReq /\ x.t \notin Dh /\ x.t \in Turn
      /\ x.t \notin Enc /\ x.t \notin Rsp /\ x.t \notin Req /\ x.t \notin Pk /\ x.t \notin Cfm
      /\ x.t \notin Keys /\ x.t \notin EncReq \cup Dh \cup Keys
  BY DEF ToP, Req, Pk, Cfm, Dh, EncReq, StartRsp, Keys, Enc, Rsp, Turn
<1>3. CentralOK(s, n, u, o)
  BY <1>1 DEF Lesc, CentralOK, KeysKnown, Keyless, Mid
<1>4. ToPeripheral(q, n, u, o)
  BY <1>2 DEF Grows, Lesc, ToPeripheral
<1>5. Requests(s, p, a, q, n)
  BY <1>1, <1>2 DEF Grows, Lesc, Requests, Fulfilled
<1>6. PublicKeys(s, p, q)
  BY <1>1, <1>2 DEF Grows, Lesc, PublicKeys
<1>7. RoundsOK(s, p, q)
  BY <1>1, <1>2 DEF Grows, Lesc, RoundsOK
<1>8. Old(s, p, a, q)
  BY <1>1, <1>2 DEF Grows, Lesc, Old, NothingOld, Fulfilled
<1>9. Checks(s, p, a, q, k)
  BY <1>1, <1>2 DEF Grows, Lesc, Checks
<1>10. Distribution(s, p, a, q, o)
  BY <1>1, <1>2 DEF Grows, Lesc, Distribution
<1>11. Encryption(a, q, k, z)
  BY <1>2 DEF Grows, Lesc, Encryption
<1>12. BondsOK(s, p, q, d, u, o)
  BY <1>1, <1>2 DEF Grows, Lesc, BondsOK, StoredOK, Stored
<1> QED
  BY <1>3, <1>4, <1>5, <1>6, <1>7, <1>8, <1>9, <1>10, <1>11, <1>12 DEF Grows, Lesc

\* The central has computed the key, and sends its check.
LEMMA CentralChecks ==
  ASSUME NEW c, NEW p, NEW a, NEW b, NEW k, NEW z, NEW n, NEW u, NEW d, NEW o,
         Lesc(c, p, a, b, k, z, n, u, d, o), c.state \in {"random_sent", "random_sent_stage"},
         Commits(c.rconf, c.id), c.peer = <<P, c.id>>,
         NEW s, s.state = "dhkey_sent", s.id = c.id, s.ipar = c.ipar, s.rpar = c.rpar,
         s.method = c.method, s.own = c.own, s.peer = c.peer, s.rconf = c.rconf,
         Keyless(s), s.ltk = s.got.ltk, s.ltk # None, s.ltk[2] = Pair(c.id),
         Consented(C, c.id, Shown(s), u, o),
         NEW x, x.t \in Dh, x.v = CheckValue(s, "initiator"), NEW q, Grows(b, x, q)
  PROVE  Lesc(s, p, a, q, k, z, n, u, d, o)
<1>1. /\ s.state \in Mid /\ c.state \in Mid /\ s.state \notin Over /\ c.state \notin Over
      /\ c.state # "dhkey_sent" /\ s.state \notin Turned /\ s.state # "pairing_rsp"
      /\ Linked(s) /\ Linked(c)
  BY DEF Mid, Over, Linked, Turned
<1>2. /\ x.t \in ToP /\ x.t \notin EncReq /\ x.t \notin Turn
      /\ x.t \notin Enc /\ x.t \notin Rsp /\ x.t \notin Req /\ x.t \notin Pk /\ x.t \notin Cfm
      /\ x.t \notin Keys
  BY DEF ToP, Req, Pk, Cfm, Dh, EncReq, StartRsp, Keys, Enc, Rsp, Turn
<1>3. n \in Nat /\ c.id \in 1..n /\ c.id # 0
  BY <1>1 DEF Lesc, CentralOK, Mid
<1>4. CentralOK(s, n, u, o)
  BY <1>1, <1>3 DEF Lesc, CentralOK, KeysKnown, Keyless
<1>5. x.v[3] = "initiator" /\ x.v[2] = s.ltk /\ x.v[4] = Shown(s)
  BY DEF CheckValue, Shown
<1>6. ToPeripheral(q, n, u, o)
  <2>1. CheckOK(x.v, C, "initiator", n, u, o)
    BY <1>3, <1>5 DEF CheckOK
  <2> QED
    BY <1>2, <2>1 DEF Grows, Lesc, ToPeripheral
<1>7. NoneIn(b, Req) /\ NoneIn(a, Rsp)
  BY <1>1 DEF Lesc, Requests
<1>8. NothingOld(c, p, a, b) /\ NoneIn(a, EncRsp)
  BY <1>1 DEF Lesc, Old, NothingOld, NoneIn, Started
<1>9. NoneIn(b, Dh)
  BY <1>1 DEF Lesc, Checks, NoneIn
<1>10. Requests(s, p, a, q, n)
  <2>1. Never(q, Req, EncReq \cup Dh \cup Keys)
    BY <1>2, <1>7 DEF Grows, Never, NoneIn
  <2> QED
    BY <1>1, <1>2, <1>7, <2>1 DEF Grows, Lesc, Requests
<1>11. PublicKeys(s, p, q)
  BY <1>1, <1>2 DEF Grows, Lesc, PublicKeys
<1>12. RoundsOK(s, p, q)
  BY <1>1, <1>2 DEF Grows, Lesc, RoundsOK
<1>13. Old(s, p, a, q)
  BY <1>1, <1>2 DEF Grows, Lesc, Old, NothingOld
<1>14. Checks(s, p, a, q, k)
  <2>1. \A y \in Elems(a) : y.t \in Dh => y.v[2][2] # Pair(c.id)
    BY <1>1, <1>3 DEF Lesc, Checks, Over
  <2>2. Never(q, Dh, Dh)
    BY <1>9 DEF Grows, Never, NoneIn
  <2>3. NoneIn(q, EncReq)
    BY <1>2, <1>8 DEF Grows, NothingOld
  <2>4. \A y \in Elems(q) : y.t \in Dh => y = x
    BY <1>9 DEF Grows, NoneIn
  <2> QED
    BY <1>1, <1>7, <1>8, <2>1, <2>2, <2>3, <2>4 DEF Checks
<1>15. Distribution(s, p, a, q, o)
  BY <1>1, <1>2 DEF Grows, Lesc, Distribution
<1>16. Encryption(a, q, k, z)
  BY <1>2 DEF Grows, Lesc, Encryption
<1>17. BondsOK(s, p, q, d, u, o)
  BY <1>1, <1>2 DEF Grows, Lesc, BondsOK, StoredOK, Stored
<1> QED
  BY <1>4, <1>6, <1>10, <1>11, <1>12, <1>13, <1>14, <1>15, <1>16, <1>17 DEF Grows, Lesc

\* The central has the peripheral's check, and asks for encryption.
LEMMA CentralEncrypts ==
  ASSUME NEW c, NEW p, NEW a, NEW b, NEW k, NEW z, NEW n, NEW u, NEW d, NEW o,
         Lesc(c, p, a, b, k, z, n, u, d, o), c.state = "dhkey_sent",
         NoneIn(b, Dh), k[P] = c.ltk, p.id = c.id => p.state \in Late /\ p.ltk = c.ltk,
         BothDid(c.id, u, o),
         NEW s, s.state = "dhkey_recvd", s.id = c.id, s.ipar = c.ipar, s.rpar = c.rpar,
         s.method = c.method, s.own = c.own, s.peer = c.peer, s.rconf = c.rconf, s.passkey = c.passkey,
         s.ltk = c.ltk, s.irk = c.irk, s.csrk = c.csrk, s.got = c.got,
         NEW x, x.t \in EncReq, NEW q, Grows(b, x, q),
         NEW h, h[C] = c.ltk, h[P] = k[P]
  PROVE  Lesc(s, p, a, q, h, z, n, u, d, o)
<1>1. /\ s.state \notin Mid /\ c.state \in Mid /\ s.state \in Over /\ c.state \notin Over
      /\ s.state \notin Turned /\ s.state # "pairing_rsp" /\ Linked(s) /\ Linked(c)
  BY DEF Lesc, CentralOK, Mid, Over, Linked, Turned
<1>2. /\ x.t \in ToP /\ x.t \notin Dh /\ x.t \notin Turn
      /\ x.t \notin Enc /\ x.t \notin Rsp /\ x.t \notin Req /\ x.t \notin Pk /\ x.t \notin Cfm
      /\ x.t \notin Keys
  BY DEF ToP, Req, Pk, Cfm, Dh, EncReq, StartRsp, Keys, Enc, Rsp, Turn
<1>3. n \in Nat /\ c.id \in 1..n /\ c.id # 0
  BY <1>1 DEF Lesc, CentralOK, Mid
<1>4. CentralOK(s, n, u, o)
  BY <1>1, <1>3 DEF Lesc, CentralOK, KeysKnown, Shown
<1>5. ToPeripheral(q, n, u, o)
  BY <1>2 DEF Grows, Lesc, ToPeripheral
<1>6. NoneIn(b, Req) /\ NoneIn(a, Rsp)
  BY <1>1 DEF Lesc, Requests
<1>7. NothingOld(c, p, a, b) /\ NoneIn(a, EncRsp \cup StartReq \cup Enc) /\ NoneIn(b, Enc) /\ NoneIn(b, EncReq)
  BY <1>1 DEF Lesc, Old, NothingOld, NoneIn, Started, Enc
<1>8. Requests(s, p, a, q, n)
  <2>1. Never(q, Req, EncReq \cup Dh \cup Keys)
    BY <1>2, <1>6 DEF Grows, Never, NoneIn
  <2> QED
    BY <1>1, <1>2, <1>6, <2>1 DEF Grows, Lesc, Requests
<1>9. PublicKeys(s, p, q)
  BY <1>1, <1>2 DEF Grows, Lesc, PublicKeys
<1>10. RoundsOK(s, p, q)
  BY <1>1, <1>2 DEF Grows, Lesc, RoundsOK
<1>11. Old(s, p, a, q)
  BY <1>1, <1>2, <1>6 DEF Grows, Lesc, Old
<1>12. Checks(s, p, a, q, h)
  <2>1. NoneIn(q, Dh) /\ Never(q, Dh, Dh)
    BY <1>2 DEF Grows, NoneIn, Never
  <2>2. \A y \in Elems(q) : y.t \notin Dh
    BY <2>1 DEF NoneIn
  <2> QED
    BY <1>1, <1>3, <2>1, <2>2 DEF Checks
<1>13. Distribution(s, p, a, q, o)
  <2>1. \A y \in Elems(q) : y.t \notin Keys
    BY <1>2, <1>7 DEF Grows, NoneIn, Enc
  <2>2. \A y \in Elems(a) : y.t \notin Keys
    BY <1>7 DEF NoneIn, Enc
  <2> QED
    BY <2>1, <2>2 DEF Distribution
<1>14. Encryption(a, q, h, z)
  <2>1. Never(q, EncReq, EncReq) /\ NoneIn(q, Enc) /\ NoneIn(a, EncRsp) /\ NoneIn(a, Enc) /\ NoneIn(a, StartReq)
    BY <1>2, <1>7 DEF Grows, NoneIn, Never
  <2>2. c.ltk # None
    BY DEF Lesc, CentralOK, None
  <2> QED
    BY <1>7, <2>1, <2>2 DEF Lesc, Encryption
<1>15. BondsOK(s, p, q, d, u, o)
  BY <1>1, <1>2 DEF Grows, Lesc, BondsOK, StoredOK, Stored
<1> QED
  BY <1>4, <1>5, <1>8, <1>9, <1>10, <1>11, <1>12, <1>13, <1>14, <1>15 DEF Grows, Lesc

\* The central takes a key of the peripheral.
LEMMA CentralTakesKey ==
  ASSUME NEW c, NEW p, NEW a, NEW b, NEW k, NEW z, NEW n, NEW u, NEW d, NEW o,
         Lesc(c, p, a, b, k, z, n, u, d, o), c.state \in Over,
         NEW s, s.state = c.state, s.id = c.id, s.ipar = c.ipar, s.rpar = c.rpar,
         s.method = c.method, s.own = c.own, s.peer = c.peer, s.rconf = c.rconf, s.passkey = c.passkey,
         s.ltk = c.ltk, s.got.ltk = c.got.ltk, KeysKnown(s, C, P, o)
  PROVE  Lesc(s, p, a, b, k, z, n, u, d, o)
<1>1. /\ s.state \notin Mid /\ s.state \notin Turned /\ s.state # "pairing_rsp" /\ (Linked(s) <=> Linked(c))
      /\ s.state # "idle" /\ s.state # "dhkey_sent"
  BY DEF Mid, Over, Linked, Turned
<1>2. CentralOK(s, n, u, o)
  BY <1>1 DEF Lesc, CentralOK, Shown, Over
<1>3. Requests(s, p, a, b, n)
  BY <1>1 DEF Lesc, Requests
<1>4. PublicKeys(s, p, b)
  BY <1>1 DEF Lesc, PublicKeys
<1>5. RoundsOK(s, p, b)
  BY <1>1 DEF Lesc, RoundsOK
<1>6. Old(s, p, a, b)
  BY <1>1 DEF Lesc, Old
<1>7. Checks(s, p, a, b, k)
  BY <1>1 DEF Lesc, Checks, Over
<1>8. Distribution(s, p, a, b, o)
  BY <1>1 DEF Lesc, Distribution
<1>9. BondsOK(s, p, b, d, u, o)
  BY <1>1 DEF Lesc, BondsOK, StoredOK, Stored
<1> QED
  BY <1>2, <1>3, <1>4, <1>5, <1>6, <1>7, <1>8, <1>9 DEF Lesc

\* The link is encrypted, and nothing of an earlier encryption is left.
Encrypted(a, b, z) ==
  z[C] # None /\ z[C] = z[P] /\ NoneIn(b, EncReq) /\ NoneIn(a, EncRsp)

\* The central sends LL_START_ENC_RSP.
LEMMA CentralStarts ==
  ASSUME NEW c, NEW p, NEW a, NEW b, NEW k, NEW z, NEW n, NEW u, NEW d, NEW o,
         Lesc(c, p, a, b, k, z, n, u, d, o), c.state \notin Mid, Encrypted(a, b, z),
         NEW x, x.t \in StartRsp, NEW q, Grows(b, x, q)
  PROVE  Lesc(c, p, a, q, k, z, n, u, d, o)
<1>1. /\ x.t \in ToP /\ x.t \notin Dh /\ x.t \notin Turn /\ x.t \notin EncReq
      /\ x.t \notin Rsp /\ x.t \notin Req /\ x.t \notin Pk /\ x.t \notin Cfm
      /\ x.t \notin Keys /\ x.t \notin EncReq \cup Dh \cup Keys
  BY DEF ToP, Req, Pk, Cfm, Dh, EncReq, StartRsp, Keys, Rsp, Turn
<1>2. ToPeripheral(q, n, u, o)
  BY <1>1 DEF Grows, Lesc, ToPeripheral
<1>3. Requests(c, p, a, q, n)
  BY <1>1 DEF Grows, Lesc, Requests
<1>4. PublicKeys(c, p, q)
  BY <1>1 DEF Grows, Lesc, PublicKeys
<1>5. RoundsOK(c, p, q)
  BY <1>1 DEF Grows, Lesc, RoundsOK
<1>6. Old(c, p, a, q)
  BY <1>1 DEF Grows, Lesc, Old
<1>7. Checks(c, p, a, q, k)
  BY <1>1 DEF Grows, Lesc, Checks
<1>8. Distribution(c, p, a, q, o)
  BY <1>1 DEF Grows, Lesc, Distribution
<1>9. Encryption(a, q, k, z)
  BY <1>1 DEF Grows, Lesc, Encryption, Encrypted
<1>10. BondsOK(c, p, q, d, u, o)
  BY <1>1 DEF Grows, Lesc, BondsOK, Stored
<1> QED
  BY <1>2, <1>3, <1>4, <1>5, <1>6, <1>7, <1>8, <1>9, <1>10 DEF Grows, Lesc

\* The central takes LL_ENC_RSP, and encrypts with the key it has.
LEMMA CentralSessionSet ==
  ASSUME NEW c, NEW p, NEW a, NEW b, NEW k, NEW z, NEW n, NEW u, NEW d, NEW o,
         Lesc(c, p, a, b, k, z, n, u, d, o),
         NEW h, NEW r, Shrinks(a, h, r), h.t \in EncRsp,
         NEW w, w[C] = k[C], w[P] = z[P]
  PROVE  Lesc(c, p, r, b, k, w, n, u, d, o)
<1>1. /\ NoneIn(a, EncRsp) => FALSE
      /\ \A T : NoneIn(a, T) => NoneIn(r, T)
      /\ \A T, U : Never(a, T, U) => Never(r, T, U)
  BY DEF Shrinks, NoneIn
<1>2. /\ Never(a, EncRsp, EncRsp) /\ NoneIn(a, Enc) /\ NoneIn(b, Enc)
      /\ k[C] # None /\ k[C] = z[P]
  BY <1>1 DEF Lesc, Encryption
<1>3. ToCentral(r, n, u, o)
  BY DEF Shrinks, Lesc, ToCentral
<1>4. Requests(c, p, r, b, n)
  BY DEF Shrinks, Lesc, Requests
<1>5. Old(c, p, r, b)
  BY DEF Shrinks, Lesc, Old, NothingOld
<1>6. NoneIn(r, EncRsp)
  BY <1>2 DEF Shrinks
<1>7. Checks(c, p, r, b, k)
  BY <1>1, <1>6 DEF Shrinks, Lesc, Checks
<1>8. Distribution(c, p, r, b, o)
  BY DEF Shrinks, Lesc, Distribution
<1>9. NoneIn(b, EncReq)
  <2>1. ~NoneIn(a, EncRsp \cup StartReq \cup Enc)
    BY DEF Shrinks, NoneIn
  <2> QED
    BY <2>1 DEF Lesc, Encryption
<1>10. Encryption(r, b, k, w)
  BY <1>1, <1>2, <1>6, <1>9 DEF Lesc, Encryption
<1> QED
  BY <1>3, <1>4, <1>5, <1>7, <1>8, <1>10 DEF Lesc, Shrinks

\* The keys in a list, of side g in pairing i.
KeysOnly(K, g, i, o) == \A x \in K : x.t \in Keys /\ KeyPdu(x, g, i, o)

\* The central has every key: it sends its own, and may store the pairing.
LEMMA CentralDone ==
  ASSUME NEW c, NEW p, NEW a, NEW b, NEW k, NEW z, NEW n, NEW u, NEW d, NEW o,
         Lesc(c, p, a, b, k, z, n, u, d, o), c.state \in Over,
         Encrypted(a, b, z), p.id = c.id => Generated(p, o),
         NEW s, s.state = "done", s.id = c.id, s.ipar = c.ipar, s.rpar = c.rpar,
         s.method = c.method, s.own = c.own, s.peer = c.peer, s.rconf = c.rconf, s.passkey = c.passkey,
         s.ltk = c.ltk, s.got = c.got, KeysKnown(s, C, P, o),
         s.irk = OwnIrk(C, s.id, o), s.csrk = OwnCsrk(C, s.id, o),
         NEW K, KeysOnly(K, C, c.id, o), NEW q, Extends(b, K, q),
         NEW e, e = d \/ (/\ e[P] = d[P]
                          /\ \A f \in e[C] : f \in d[C] \/ f = Bond(s))
  PROVE  Lesc(s, p, a, q, k, z, n, u, e, o)
<1>1. /\ s.state \notin Mid /\ c.state \notin Mid /\ s.state \in Over /\ s.state \notin Turned
      /\ s.state # "pairing_rsp" /\ c.state # "pairing_rsp" /\ Linked(s) /\ Linked(c)
      /\ s.state # "dhkey_sent" /\ c.state # "dhkey_sent" /\ c.state # "idle"
  BY DEF Mid, Over, Linked, Turned, Lesc, CentralOK
<1>2. \A x \in K :
      /\ x.t \in ToP /\ x.t \notin Dh /\ x.t \notin Turn /\ x.t \notin EncReq
      /\ x.t \notin Rsp /\ x.t \notin Req /\ x.t \notin Pk /\ x.t \notin Cfm /\ x.t \in Keys
  BY DEF KeysOnly, ToP, Req, Pk, Cfm, Dh, EncReq, Keys, Rsp, Turn
<1>3. n \in Nat /\ c.id # 0 /\ NoneIn(b, Req) /\ NoneIn(a, Rsp) /\ p.id \in {0, c.id}
  BY <1>1 DEF Lesc, CentralOK, Requests
<1>4. /\ \A y \in Elems(q) : y \notin K => y \in Elems(b)
      /\ \A T : NoneIn(q, T) => NoneIn(b, T)
      /\ \A T : NoneIn(b, T) /\ (\A x \in K : x.t \notin T) => NoneIn(q, T)
      /\ \A T, U : Never(b, T, U) /\ (\A x \in K : x.t \notin U) => Never(q, T, U)
      /\ \A v, y : Before(b, v, y) => v \in Elems(b) /\ y \in Elems(b)
  BY QueueElements DEF Extends, NoneIn, Never
<1>5. CentralOK(s, n, u, o)
  BY <1>1 DEF Lesc, CentralOK, Shown
<1>6. ToPeripheral(q, n, u, o)
  BY <1>2, <1>4 DEF Lesc, ToPeripheral
<1>7. NoneIn(q, Req) /\ NoneIn(q, EncReq)
  BY <1>2, <1>3, <1>4 DEF Encrypted
<1>8. Requests(s, p, a, q, n)
  <2>1. Never(q, Req, EncReq \cup Dh \cup Keys) /\ \A y \in Elems(q) : y.t \notin Req
    BY <1>7 DEF Never, NoneIn
  <2> QED
    BY <1>1, <1>3, <1>7, <2>1 DEF Lesc, Requests
<1>9. PublicKeys(s, p, q)
  BY <1>1, <1>2, <1>4, QueueElements DEF Extends, Lesc, PublicKeys
<1>10. RoundsOK(s, p, q)
  BY <1>1, <1>2, <1>4, QueueElements DEF Extends, Lesc, RoundsOK
<1>11. Old(s, p, a, q)
  BY <1>1, <1>3, <1>7 DEF Lesc, Old
<1>12. Checks(s, p, a, q, k)
  <2>1. NoneIn(b, Dh) => NoneIn(q, Dh)
    BY <1>2, <1>4
  <2>2. Never(q, Dh, Dh)
    BY <1>2, <1>4 DEF Lesc, Checks
  <2>3. \A y \in Elems(q) : y.t \in Dh => y \in Elems(b)
    BY <1>2, <1>4
  <2> QED
    BY <1>1, <1>7, <2>1, <2>2, <2>3 DEF Lesc, Checks
<1>13. Distribution(s, p, a, q, o)
  <2>1. p.id # 0 => p.id = c.id /\ p.state \in Late /\ Generated(p, o)
    BY <1>3 DEF Lesc, Checks
  <2> QED
    BY <1>1, <1>4, <2>1 DEF Lesc, Distribution, KeysOnly
<1>14. Encryption(a, q, k, z)
  BY <1>4, <1>7 DEF Lesc, Encryption, Encrypted
<1>15. BondsOK(s, p, q, e, u, o)
  <2>1. StoredOK(s, C, P, d, u, o) /\ StoredOK(p, P, C, d, u, o) /\ Stored(s, p, q, d)
    BY <1>1, <1>2, <1>4 DEF Lesc, BondsOK, StoredOK, Stored
  <2>2. CASE e = d
    BY <2>1, <2>2 DEF BondsOK
  <2>3. CASE e # d
    <3> DEFINE f == Bond(s)
    <3>1. /\ e[P] = d[P] /\ \A g \in e[C] : g \in d[C] \/ g = f
      BY <2>3
    <3>2. /\ f.id = c.id /\ f.auth = Authenticated(s.method)
          /\ f.own.ltk = s.ltk /\ f.own.irk = s.irk /\ f.own.csrk = s.csrk
          /\ f.peer.ltk = s.got.ltk /\ f.peer.irk = s.got.irk /\ f.peer.csrk = s.got.csrk
      BY DEF Bond
    <3> HIDE DEF f
    <3>3. /\ f.auth = Auth(o) /\ BothDid(c.id, u, o) /\ f.peer.ltk = f.own.ltk
      BY <1>1, <3>2 DEF Lesc, CentralOK, Auth
    <3>4. StoredOK(s, C, P, e, u, o) /\ StoredOK(p, P, C, e, u, o)
      BY <2>1, <3>1, <3>2, <3>3 DEF StoredOK, KeysKnown
    <3>5. p.id = c.id => p.state \in Late /\ p.ltk = c.ltk
      BY DEF Lesc, Checks
    <3>6. \A y \in Elems(q) : y.t \notin Req
      BY <1>7 DEF NoneIn
    <3>7. Stored(s, p, q, e)
      <4>1. \A g \in d[P] : g.id = c.id => g.own.ltk = c.ltk
        BY DEF Lesc, BondsOK, Stored, Peers, P
      <4>2. /\ Peers = {C, P} /\ Other(C) = P /\ Other(P) = C
        BY TwoSides DEF Peers, C, P
      <4> QED
        BY <1>1, <2>1, <3>1, <3>2, <3>5, <3>6, <4>1, <4>2 DEF Stored
    <3> QED
      BY <3>4, <3>7 DEF BondsOK
  <2> QED
    BY <2>2, <2>3
<1> QED
  BY <1>5, <1>6, <1>8, <1>9, <1>10, <1>11, <1>12, <1>13, <1>14, <1>15 DEF Extends, Lesc

-----------------------------------------------------------------------------
(* LE Secure Connections: what a peripheral does keeps the invariant       *)

\* The peripheral accepts the request at the head of its queue.
LEMMA PeripheralAccepts ==
  ASSUME NEW c, NEW p, NEW a, NEW b, NEW k, NEW z, NEW n, NEW u, NEW d, NEW o,
         Lesc(c, p, a, b, k, z, n, u, d, o),
         NEW h, NEW r, Shrinks(b, h, r), h.t \in Req,
         NEW s, s.state = "pairing_req", s.id = h.v.id, s.ipar = o[C], s.rpar = o[P],
         s.method = Chosen(o), s.own = <<P, s.id>>, s.peer = None, Keyless(s),
         NEW x, x.t \in Rsp, x.v = o[P], NEW q, Grows(a, x, q)
  PROVE  Lesc(c, s, q, r, k, z, n, u, d, o)
<1>1. /\ n \in Nat /\ h.v.id \in 1..n /\ h \in Elems(b) /\ s.id # 0
      /\ \A y \in Elems(r) : y.t \in Req => y.v.id \in 1..n
  BY DEF Shrinks, Lesc, ToPeripheral
<1>2. /\ x.t \in ToC /\ x.t \notin EncRsp /\ x.t \notin Dh /\ x.t \notin StartReq /\ x.t \notin StartRsp
      /\ x.t \notin Enc /\ x.t \notin Pk /\ x.t \notin Cfm /\ x.t \notin Keys /\ x.t \notin Started
      /\ x.t \notin EncRsp \cup StartReq \cup Enc
  BY DEF ToC, Rsp, Pk, Cfm, Dh, EncRsp, StartReq, StartRsp, Keys, Enc, Started
<1>3. /\ h.t \notin Pk /\ h.t \notin Dh /\ h.t \notin EncReq /\ h.t \in Turn
  BY DEF Req, Pk, Dh, EncReq, Turn
<1>4. s.state \notin Late /\ s.state \notin Asked
  BY DEF Late, Asked
<1>5. ~NoneIn(b, Req)
  BY <1>1 DEF NoneIn
<1>6. ~Linked(c) /\ \A y \in Elems(a) : ~Committed(y, c.id)
  BY <1>5 DEF Lesc, Requests
<1>7. NoneIn(r, EncReq) /\ NoneIn(r, Dh) /\ NoneIn(r, Keys)
  <2>1. NoneIn(r, EncReq \cup Dh \cup Keys)
    BY DEF Shrinks, Lesc, Requests
  <2> QED
    BY <2>1 DEF NoneIn
<1>8. PeripheralOK(s, n, u, o)
  BY <1>1, <1>4 DEF PeripheralOK, KeysKnown, Keyless
<1>9. ToCentral(q, n, u, o)
  BY <1>2 DEF Grows, Lesc, ToCentral
<1>10. ToPeripheral(r, n, u, o)
  BY DEF Shrinks, Lesc, ToPeripheral
<1>11. Requests(c, s, q, r, n)
  <2>1. \A y \in Elems(r) : y.t \in Req => y.v.id > s.id /\ (LastOf(r, Req, y) => y.v.id = n)
    BY <1>1 DEF Shrinks, Lesc, Requests
  <2>2. NoneIn(r, Req) => s.id = n
    BY <1>1 DEF Shrinks, Lesc, Requests
  <2>3. c.id # 0 => c.id = n
    BY DEF Lesc, CentralOK
  <2>4. \A v, y \in Elems(q) : Before(q, v, y) => ~Committed(v, c.id)
    BY <1>6 DEF Grows
  <2>5. \A y \in Elems(q) : ~Committed(y, c.id)
    BY <1>2, <1>6 DEF Grows, Committed
  <2> QED
    BY <1>6, <2>1, <2>2, <2>3, <2>4, <2>5 DEF Shrinks, Lesc, Requests
<1>12. PublicKeys(c, s, r)
  BY <1>1, <1>3 DEF Shrinks, Lesc, PublicKeys
<1>13. RoundsOK(c, s, r)
  <2>1. c.state \in Mid => ~NoneIn(r, Pk)
    BY <1>1, <1>3 DEF Shrinks, Lesc, RoundsOK
  <2>2. \A y \in Elems(r) : FirstOf(r, Pk, y) => y.t \notin Cfm
    BY <1>1 DEF Shrinks, Lesc, RoundsOK
  <2> QED
    BY <2>1, <2>2 DEF Shrinks, Lesc, RoundsOK
<1>14. Old(c, s, q, r)
  <2>1. c.state \in Mid => NothingOld(c, s, q, r)
    BY <1>2, <1>4, <1>6 DEF Shrinks, Grows, Lesc, Old, NothingOld, Committed
  <2> QED
    BY <1>2, <1>4, <1>7, <2>1 DEF Grows, Lesc, Old
<1>15. Checks(c, s, q, r, k)
  <2>1. c.state \in Over => c.id # s.id
    <3>1. c.state \in Over => Linked(c)
      BY DEF Lesc, CentralOK, Linked, Over
    <3> QED
      BY <1>6, <3>1
  <2>2. c.state = "dhkey_sent" => Linked(c)
    BY DEF Lesc, CentralOK, Linked
  <2>3. Never(r, Dh, Dh) /\ \A y \in Elems(r) : y.t \notin Dh
    BY <1>7 DEF Never, NoneIn
  <2> QED
    BY <1>2, <1>6, <1>7, <2>1, <2>2, <2>3 DEF Grows, Lesc, Checks
<1>16. Distribution(c, s, q, r, o)
  <2>1. \A y \in Elems(r) : y.t \notin Keys
    BY <1>7 DEF NoneIn
  <2>2. c.state \in Over => Linked(c)
    BY DEF Lesc, CentralOK, Linked, Over
  <2> QED
    BY <1>6, <2>1, <2>2 DEF Distribution
<1>17. Encryption(q, r, k, z)
  BY <1>2, <1>7 DEF Grows, Shrinks, Lesc, Encryption
<1>18. BondsOK(c, s, r, d, u, o)
  BY <1>1 DEF Shrinks, Lesc, BondsOK, StoredOK, Stored
<1> QED
  BY <1>8, <1>9, <1>10, <1>11, <1>12, <1>13, <1>14, <1>15, <1>16, <1>17, <1>18 DEF Shrinks, Grows, Lesc

\* The peripheral has the public key of the central, which is still the
\* head of its queue.
LEMMA PeripheralKeepsKey ==
  ASSUME NEW c, NEW p, NEW a, NEW b, NEW k, NEW z, NEW n, NEW u, NEW d, NEW o,
         Lesc(c, p, a, b, k, z, n, u, d, o), p.state = "pairing_req",
         NEW h, NEW r, Shrinks(b, h, r), h.t \in Pk, h.v = <<C, p.id>>,
         NEW s, s.state \in {"confirm_sent", "pubkey_recvd_stage"}, s.id = p.id, s.ipar = p.ipar,
         s.rpar = p.rpar, s.method = p.method, s.own = p.own, s.peer = <<C, p.id>>, Keyless(s),
         s.state = "confirm_sent" => s.rconf[2] = <<P, p.id>> /\ s.method.kind # "passkey",
         s.state = "pubkey_recvd_stage" => s.round = 1 /\ s.method.kind = "passkey"
  PROVE  Lesc(c, s, a, b, k, z, n, u, d, o)
<1>1. /\ s.state \notin Late /\ p.state \notin Late /\ s.state \notin Asked
  BY DEF Late, Asked
<1>2. h \in Elems(b) /\ p.id # 0
  BY DEF Shrinks, Lesc, PeripheralOK
<1>3. PeripheralOK(s, n, u, o)
  BY <1>1, <1>2 DEF Lesc, PeripheralOK, KeysKnown, Keyless, None
<1>4. Requests(c, s, a, b, n)
  BY DEF Lesc, Requests
<1>5. PublicKeys(c, s, b)
  BY <1>2 DEF Lesc, PublicKeys
<1>6. RoundsOK(c, s, b)
  BY DEF Lesc, RoundsOK
<1>7. Old(c, s, a, b)
  <2>1. ASSUME c.state \in Mid, p.id = c.id PROVE NoneIn(b, Enc)
    <3>1. \A y \in Elems(r) : Before(b, h, y) /\ y \in Elems(b)
      BY DEF Shrinks
    <3>2. h.t \notin Enc
      BY DEF Pk, Enc, StartRsp, Keys
    <3>3. \A y \in Elems(b) : Before(b, h, y) => y.t \notin Enc
      BY <1>2, <2>1 DEF Lesc, Old, NothingOld
    <3> QED
      BY <3>1, <3>2, <3>3 DEF Shrinks, NoneIn
  <2> QED
    BY <1>1, <2>1 DEF Lesc, Old, NothingOld
<1>8. Checks(c, s, a, b, k)
  BY <1>1 DEF Lesc, Checks
<1>9. Distribution(c, s, a, b, o)
  BY <1>1 DEF Lesc, Distribution, PeripheralOK, Keyless, Generated
<1>10. BondsOK(c, s, b, d, u, o)
  BY <1>1 DEF Lesc, BondsOK, StoredOK, Stored
<1> QED
  BY <1>3, <1>4, <1>5, <1>6, <1>7, <1>8, <1>9, <1>10 DEF Lesc

\* The peripheral commits to a value, in the pairing it is in.
LEMMA PeripheralCommits ==
  ASSUME NEW c, NEW p, NEW a, NEW b, NEW k, NEW z, NEW n, NEW u, NEW d, NEW o,
         Lesc(c, p, a, b, k, z, n, u, d, o), p.peer # None,
         NEW x, x.t \in Cfm, Commits(x.v, p.id), NEW q, Grows(a, x, q)
  PROVE  Lesc(c, p, q, b, k, z, n, u, d, o)
<1>1. /\ x.t \in ToC /\ x.t \notin EncRsp /\ x.t \notin Dh /\ x.t \notin StartReq /\ x.t \notin StartRsp
      /\ x.t \notin Enc /\ x.t \notin Pk /\ x.t \notin Rsp /\ x.t \notin Keys /\ x.t \notin Started
      /\ x.t \notin EncRsp \cup StartReq \cup Enc
  BY DEF ToC, Rsp, Pk, Cfm, Dh, EncRsp, StartReq, StartRsp, Keys, Enc, Started
<1>2. p.id \in 1..n /\ n \in Nat
  BY DEF Lesc, PeripheralOK
<1>3. \A i : Committed(x, i) => i = p.id
  BY DEF Committed, Commits
<1>4. c.id \in {0, n}
  BY DEF Lesc, CentralOK
<1>5. Committed(x, c.id) => NoneIn(b, Req)
  <2>1. ASSUME NEW y \in Elems(b), y.t \in Req, p.id = n PROVE FALSE
    <3>1. y.v.id \in 1..n /\ y.v.id > p.id
      BY <2>1 DEF Lesc, Requests, ToPeripheral
    <3> QED
      BY <1>2, <2>1, <3>1
  <2> QED
    BY <1>2, <1>3, <1>4, <2>1 DEF NoneIn
<1>6. ToCentral(q, n, u, o)
  BY <1>1, <1>2 DEF Grows, Lesc, ToCentral
<1>7. c.state = "pairing_rsp" => c.id # p.id
  BY DEF Lesc, PublicKeys
<1>8. Requests(c, p, q, b, n)
  <2>1. c.state = "pairing_rsp" => \A y \in Elems(q) : ~Committed(y, c.id)
    BY <1>3, <1>7 DEF Grows, Lesc, Requests
  <2>2. (\E y \in Elems(q) : Committed(y, c.id)) \/ Linked(c) => NoneIn(b, Req)
    BY <1>5 DEF Grows, Lesc, Requests
  <2> QED
    BY <1>1, <2>1, <2>2 DEF Grows, Lesc, Requests
<1>9. Old(c, p, q, b)
  <2>1. ASSUME c.state \in Mid PROVE NothingOld(c, p, q, b)
    <3>1. NothingOld(c, p, a, b)
      BY <2>1 DEF Lesc, Old
    <3>2. Committed(x, c.id) => NoneIn(b, Enc)
      BY <1>3, <3>1 DEF NothingOld
    <3>3. \A v, y \in Elems(q) : Before(q, v, y) => v \in Elems(a) /\ (y = x \/ (y \in Elems(a) /\ Before(a, v, y)))
      BY DEF Grows
    <3> QED
      BY <1>1, <3>1, <3>2, <3>3 DEF Grows, NothingOld
  <2> QED
    BY <1>1, <2>1 DEF Grows, Lesc, Old
<1>10. Checks(c, p, q, b, k)
  BY <1>1 DEF Grows, Lesc, Checks
<1>11. Distribution(c, p, q, b, o)
  BY <1>1 DEF Grows, Lesc, Distribution
<1>12. Encryption(q, b, k, z)
  BY <1>1 DEF Grows, Lesc, Encryption
<1> QED
  BY <1>6, <1>8, <1>9, <1>10, <1>11, <1>12 DEF Grows, Lesc

LEMMA PairsDiffer == \A i, j : Pair(i) = Pair(j) => i = j
<1> SUFFICES ASSUME NEW i, NEW j, Pair(i) = Pair(j)
             PROVE  i = j
  OBVIOUS
<1>1. <<C, i>> \in Pair(j)
  BY DEF Pair
<1>2. <<C, i>> = <<C, j>> \/ <<C, i>> = <<P, j>>
  BY <1>1 DEF Pair
<1> QED
  BY <1>2

\* The peripheral has the commitment of a round, and commits to its own bit.
LEMMA PeripheralTakesRound ==
  ASSUME NEW c, NEW p, NEW a, NEW b, NEW k, NEW z, NEW n, NEW u, NEW d, NEW o,
         Lesc(c, p, a, b, k, z, n, u, d, o), p.state \in {"pubkey_recvd_stage", "random_sent_stage"},
         \A y \in Elems(b) : FirstOf(b, Turn, y) => y.t \notin Cfm,
         c.state \in Turned => ~NoneIn(b, Turn),
         NEW s, s.state = "confirm_sent_stage", s.id = p.id, s.ipar = p.ipar,
         s.rpar = p.rpar, s.method = p.method, s.own = p.own, s.peer = p.peer, Keyless(s),
         s.rconf[2] = <<P, p.id>>, Consented(P, p.id, s.passkey, u, o)
  PROVE  Lesc(c, s, a, b, k, z, n, u, d, o)
<1>1. /\ s.state \notin Late /\ p.state \notin Late /\ s.state \in Asked
  BY DEF Late, Asked
<1>2. PeripheralOK(s, n, u, o)
  BY <1>1 DEF Lesc, PeripheralOK, KeysKnown, Keyless, Shown
<1>3. Requests(c, s, a, b, n)
  BY DEF Lesc, Requests
<1>4. PublicKeys(c, s, b)
  BY DEF Lesc, PublicKeys
<1>5. RoundsOK(c, s, b)
  BY DEF Lesc, RoundsOK
<1>6. Old(c, s, a, b)
  BY <1>1 DEF Lesc, Old, NothingOld
<1>7. Checks(c, s, a, b, k)
  BY <1>1 DEF Lesc, Checks
<1>8. Distribution(c, s, a, b, o)
  BY <1>1 DEF Lesc, Distribution, PeripheralOK, Keyless, Generated
<1>9. BondsOK(c, s, b, d, u, o)
  BY <1>1 DEF Lesc, BondsOK, StoredOK, Stored
<1> QED
  BY <1>2, <1>3, <1>4, <1>5, <1>6, <1>7, <1>8, <1>9 DEF Lesc

\* The peripheral has a random value of the central.
LEMMA PeripheralReveals ==
  ASSUME NEW c, NEW p, NEW a, NEW b, NEW k, NEW z, NEW n, NEW u, NEW d, NEW o,
         Lesc(c, p, a, b, k, z, n, u, d, o), p.state \in {"confirm_sent", "confirm_sent_stage"},
         NEW s, s.state \in {"random_sent", "random_sent_stage"}, s.id = p.id, s.ipar = p.ipar,
         s.rpar = p.rpar, s.method = p.method, s.own = p.own, s.peer = p.peer, Keyless(s),
         s.rconf = p.rconf, s.passkey = p.passkey,
         s.state = "random_sent_stage" => p.state = "confirm_sent_stage",
         Consented(P, p.id, Shown(p), u, o)
  PROVE  Lesc(c, s, a, b, k, z, n, u, d, o)
<1>1. /\ s.state \notin Late /\ p.state \notin Late /\ s.state \in Asked
  BY DEF Late, Asked
<1>2. PeripheralOK(s, n, u, o)
  BY <1>1 DEF Lesc, PeripheralOK, KeysKnown, Keyless, Shown
<1>3. Requests(c, s, a, b, n)
  BY DEF Lesc, Requests
<1>4. PublicKeys(c, s, b)
  BY DEF Lesc, PublicKeys
<1>5. RoundsOK(c, s, b)
  BY DEF Lesc, RoundsOK
<1>6. Old(c, s, a, b)
  BY <1>1 DEF Lesc, Old, NothingOld
<1>7. Checks(c, s, a, b, k)
  BY <1>1 DEF Lesc, Checks
<1>8. Distribution(c, s, a, b, o)
  BY <1>1 DEF Lesc, Distribution, PeripheralOK, Keyless, Generated
<1>9. BondsOK(c, s, b, d, u, o)
  BY <1>1 DEF Lesc, BondsOK, StoredOK, Stored
<1> QED
  BY <1>2, <1>3, <1>4, <1>5, <1>6, <1>7, <1>8, <1>9 DEF Lesc

\* The peripheral finds the central's check valid, and answers with its own.
LEMMA PeripheralChecks ==
  ASSUME NEW c, NEW p, NEW a, NEW b, NEW k, NEW z, NEW n, NEW u, NEW d, NEW o,
         Lesc(c, p, a, b, k, z, n, u, d, o), p.state = "random_sent",
         NoneIn(b, Dh), NoneIn(b, EncReq), NoneIn(a, Rsp), NoneIn(a, EncRsp),
         c.state \in Mid \/ c.id = p.id => c.state = "dhkey_sent" /\ c.id = p.id,
         c.state = "dhkey_sent" => \A y \in Elems(a) : y.t \in Dh => y.v[2][2] # Pair(c.id),
         NEW s, s.state = "dhkey_sent", s.id = p.id, s.ipar = p.ipar,
         s.rpar = p.rpar, s.method = p.method, s.own = p.own, s.peer = p.peer, Keyless(s),
         s.passkey = p.passkey,
         s.ltk = s.got.ltk, s.ltk # None, s.ltk[2] = Pair(p.id), BothDid(p.id, u, o),
         NEW x, x.t \in Dh, x.v = CheckValue(s, "responder"), NEW q, Grows(a, x, q),
         NEW h, h[P] = s.ltk, h[C] = k[C]
  PROVE  Lesc(c, s, q, b, h, z, n, u, d, o)
<1>1. /\ s.state \in Late /\ p.state \notin Late /\ s.state \in Asked /\ p.state \in Asked
  BY DEF Late, Asked
<1>2. /\ x.t \in ToC /\ x.t \notin EncRsp /\ x.t \notin StartReq /\ x.t \notin StartRsp
      /\ x.t \notin Enc /\ x.t \notin Pk /\ x.t \notin Rsp /\ x.t \notin Keys /\ x.t \notin Started
      /\ x.t \notin EncRsp \cup StartReq \cup Enc /\ x.t \notin Cfm
  BY DEF ToC, Rsp, Pk, Cfm, Dh, EncRsp, StartReq, StartRsp, Keys, Enc, Started
<1>3. p.id \in 1..n /\ n \in Nat
  BY DEF Lesc, PeripheralOK
<1>4. PeripheralOK(s, n, u, o)
  BY <1>1 DEF Lesc, PeripheralOK, KeysKnown, Keyless, Shown
<1>5. x.v[3] = "responder" /\ x.v[2] = s.ltk /\ x.v[4] = Shown(s)
  BY DEF CheckValue, Shown
<1>6. ToCentral(q, n, u, o)
  <2>1. Consented(P, p.id, Shown(s), u, o)
    BY <1>1 DEF Lesc, PeripheralOK, Shown
  <2>2. CheckOK(x.v, P, "responder", n, u, o)
    BY <1>3, <1>5, <2>1 DEF CheckOK
  <2> QED
    BY <1>2, <2>2 DEF Grows, Lesc, ToCentral
<1>7. Requests(c, s, q, b, n)
  BY <1>2 DEF Grows, Lesc, Requests, Committed
<1>8. PublicKeys(c, s, b)
  BY DEF Lesc, PublicKeys
<1>9. RoundsOK(c, s, b)
  BY DEF Lesc, RoundsOK
<1>10. NoneIn(q, Rsp) /\ NoneIn(q, EncRsp)
  BY <1>2 DEF Grows
<1>11. Old(c, s, q, b)
  <2>1. c.state \in Mid => NothingOld(c, s, q, b)
    BY <1>1, <1>2 DEF Grows, Lesc, Old, NothingOld, Committed
  <2> QED
    BY <1>2, <1>10, <2>1 DEF Grows, Lesc, Old
<1>12. Checks(c, s, q, b, h)
  <2>1. \A y \in Elems(b) : y.t \notin Dh
    BY DEF NoneIn
  <2>2. \A y \in Elems(q) : y.t \in Dh /\ c.id # 0 /\ y.v[2][2] = Pair(c.id) =>
          y = x \/ c.state \in Over
    BY DEF Grows, Lesc, Checks
  <2>3. c.id # 0 /\ x.v[2][2] = Pair(c.id) => c.id = p.id
    <3>1. x.v[2][2] = Pair(p.id)
      BY <1>5
    <3> QED
      BY <3>1, PairsDiffer
  <2>4. c.state \in Over => c.id # p.id
    BY DEF Over
  <2>5. Never(b, Dh, Dh)
    BY <2>1 DEF Never
  <2>6. "dhkey_sent" \notin Over
    BY DEF Over
  <2> QED
    BY <2>6, <1>1, <1>5, <1>10, <2>1, <2>2, <2>3, <2>4, <2>5 DEF Checks
<1>13. Distribution(c, s, q, b, o)
  <2>1. \A y \in Elems(b) : y.t \in Keys => FALSE
    BY <1>1, <1>3 DEF Lesc, Distribution
  <2>2. c.state \in Over => c.id # p.id
    BY DEF Over
  <2> QED
    BY <1>2, <2>1, <2>2 DEF Grows, Lesc, Distribution
<1>14. Encryption(q, b, h, z)
  BY <1>2 DEF Grows, Lesc, Encryption
<1>15. BondsOK(c, s, b, d, u, o)
  BY <1>1 DEF Lesc, BondsOK, StoredOK, Stored
<1> QED
  BY <1>4, <1>6, <1>7, <1>8, <1>9, <1>11, <1>12, <1>13, <1>14, <1>15 DEF Grows, Lesc

\* The peripheral takes LL_ENC_REQ, encrypts with the key it has, and
\* answers.
LEMMA PeripheralSessionSet ==
  ASSUME NEW c, NEW p, NEW a, NEW b, NEW k, NEW z, NEW n, NEW u, NEW d, NEW o,
         Lesc(c, p, a, b, k, z, n, u, d, o),
         NEW h, NEW r, Shrinks(b, h, r), h.t \in EncReq,
         NEW w, w[P] = k[P], w[C] = z[C],
         NEW x, x.t \in EncRsp, NEW m, Grows(a, x, m),
         NEW y, y.t \in StartReq, NEW q, Grows(m, y, q)
  PROVE  Lesc(c, p, q, r, k, w, n, u, d, o)
<1>1. h \in Elems(b) /\ ~NoneIn(b, EncReq)
  BY DEF Shrinks, NoneIn
<1>2. /\ Never(b, EncReq, EncReq) /\ NoneIn(a, EncRsp \cup StartReq \cup Enc) /\ NoneIn(b, Enc)
      /\ k[C] # None /\ k[C] = k[P]
  BY <1>1 DEF Lesc, Encryption
<1>3. NoneIn(a, EncRsp) /\ NoneIn(a, StartReq) /\ NoneIn(a, Enc) /\ NoneIn(a, Rsp) /\ NoneIn(b, Dh)
  BY <1>1, <1>2 DEF NoneIn, Lesc, Old, Checks
<1>4. c.state \notin Mid
  BY <1>1 DEF Lesc, Old, NothingOld
<1>5. Lesc(c, p, a, r, k, z, n, u, d, o)
  <2>1. h.t \notin Req /\ h.t \notin Pk /\ h.t \notin Turn
    BY DEF EncReq, Req, Pk, Turn
  <2> QED
    BY <2>1, TakenByPeripheral
<1>6. /\ x.t \in ToC /\ x.t \notin Dh /\ x.t \notin StartReq /\ x.t \notin StartRsp
      /\ x.t \notin Enc /\ x.t \notin Pk /\ x.t \notin Rsp /\ x.t \notin Keys /\ x.t \notin Cfm
  BY DEF ToC, Rsp, Pk, Cfm, Dh, EncRsp, StartReq, StartRsp, Keys, Enc
<1>7. /\ y.t \in ToC /\ y.t \notin Dh /\ y.t \notin EncRsp /\ y.t \notin StartRsp
      /\ y.t \notin Enc /\ y.t \notin Pk /\ y.t \notin Rsp /\ y.t \notin Keys /\ y.t \notin Cfm
  BY DEF ToC, Rsp, Pk, Cfm, Dh, EncRsp, StartReq, StartRsp, Keys, Enc
<1>8. /\ \A g \in Elems(q) : g = x \/ g = y \/ g \in Elems(a)
      /\ \A g, e : Before(q, g, e) => e = x \/ e = y \/ (Before(a, g, e) /\ g \in Elems(a))
      /\ NoneIn(q, Rsp) /\ NoneIn(q, Enc) /\ ~NoneIn(q, EncRsp)
  BY <1>3, <1>6, <1>7 DEF Grows, NoneIn
<1>9. ToCentral(q, n, u, o)
  BY <1>6, <1>7, <1>8 DEF Lesc, ToCentral
<1>10. Requests(c, p, q, r, n)
  BY <1>5, <1>6, <1>7, <1>8 DEF Lesc, Requests, Committed
<1>11. Old(c, p, q, r)
  <2>1. Never(q, Rsp, Started)
    BY <1>8 DEF Never, NoneIn
  <2> QED
    BY <1>4, <1>8, <2>1 DEF Old
<1>12. NoneIn(r, Dh) /\ NoneIn(r, Enc) /\ NoneIn(r, EncReq)
  BY <1>2, <1>3 DEF Shrinks
<1>13. Checks(c, p, q, r, k)
  <2>1. \A g \in Elems(r) : g.t \notin Dh
    BY <1>12 DEF NoneIn
  <2> QED
    BY <1>5, <1>6, <1>7, <1>8, <1>12, <2>1 DEF Lesc, Checks
<1>14. Distribution(c, p, q, r, o)
  BY <1>5, <1>6, <1>7, <1>8 DEF Lesc, Distribution
<1>15. Encryption(q, r, k, w)
  <2>1. Never(q, EncRsp, EncRsp)
    <3>1. NoneIn(m, StartReq) /\ Never(m, EncRsp, EncRsp)
      BY <1>3, <1>6 DEF Grows, Never, NoneIn
    <3> QED
      BY <1>7, <3>1 DEF Grows
  <2>2. Never(q, StartReq, EncRsp)
    <3>1. NoneIn(m, StartReq)
      BY <1>3, <1>6 DEF Grows
    <3>2. Never(m, StartReq, EncRsp)
      BY <3>1 DEF Never, NoneIn
    <3> QED
      BY <1>7, <3>2 DEF Grows
  <2> QED
    BY <1>2, <1>8, <1>12, <2>1, <2>2 DEF Encryption
<1> QED
  BY <1>5, <1>9, <1>10, <1>11, <1>13, <1>14, <1>15 DEF Grows, Lesc

\* The peripheral sends LL_START_ENC_RSP.
LEMMA PeripheralStarts ==
  ASSUME NEW c, NEW p, NEW a, NEW b, NEW k, NEW z, NEW n, NEW u, NEW d, NEW o,
         Lesc(c, p, a, b, k, z, n, u, d, o), Encrypted(a, b, z),
         c.state \in Mid => ~Linked(c) /\ \A y \in Elems(a) : ~Committed(y, c.id),
         NEW x, x.t \in StartRsp, NEW q, Grows(a, x, q)
  PROVE  Lesc(c, p, q, b, k, z, n, u, d, o)
<1>1. /\ x.t \in ToC /\ x.t \notin Dh /\ x.t \notin StartReq /\ x.t \notin EncRsp
      /\ x.t \notin Pk /\ x.t \notin Rsp /\ x.t \notin Keys /\ x.t \notin Cfm /\ x.t \notin Started
  BY DEF ToC, Rsp, Pk, Cfm, Dh, EncRsp, StartReq, StartRsp, Keys, Started
<1>2. ToCentral(q, n, u, o)
  BY <1>1 DEF Grows, Lesc, ToCentral
<1>3. Requests(c, p, q, b, n)
  BY <1>1 DEF Grows, Lesc, Requests, Committed
<1>4. Old(c, p, q, b)
  BY <1>1 DEF Grows, Lesc, Old, NothingOld, Committed
<1>5. Checks(c, p, q, b, k)
  BY <1>1 DEF Grows, Lesc, Checks
<1>6. Distribution(c, p, q, b, o)
  BY <1>1 DEF Grows, Lesc, Distribution
<1>7. Encryption(q, b, k, z)
  BY <1>1 DEF Grows, Lesc, Encryption, Encrypted
<1> QED
  BY <1>2, <1>3, <1>4, <1>5, <1>6, <1>7 DEF Grows, Lesc

\* The peripheral generates its keys and sends them.
LEMMA PeripheralDistributes ==
  ASSUME NEW c, NEW p, NEW a, NEW b, NEW k, NEW z, NEW n, NEW u, NEW d, NEW o,
         Lesc(c, p, a, b, k, z, n, u, d, o), p.state = "dhkey_sent", Encrypted(a, b, z),
         c.state \notin Mid,
         NEW s, s.state \in {"dhkey_sent", "distribute"}, s.id = p.id, s.ipar = p.ipar,
         s.rpar = p.rpar, s.method = p.method, s.own = p.own, s.peer = p.peer,
         s.passkey = p.passkey, s.ltk = p.ltk, s.got = p.got, Generated(s, o),
         NEW K, KeysOnly(K, P, p.id, o), NEW q, Extends(a, K, q)
  PROVE  Lesc(c, s, q, b, k, z, n, u, d, o)
<1>1. /\ s.state \in Late /\ p.state \in Late /\ s.state \in Asked /\ p.state \in Asked
  BY DEF Late, Asked
<1>2. \A x \in K :
      /\ x.t \in ToC /\ x.t \notin Dh /\ x.t \notin StartReq /\ x.t \notin EncRsp
      /\ x.t \notin Pk /\ x.t \notin Rsp /\ x.t \notin Cfm /\ x.t \in Keys
  BY DEF KeysOnly, ToC, Rsp, Pk, Cfm, Dh, EncRsp, StartReq, Keys
<1>3. n \in Nat /\ p.id \in 1..n /\ p.id # 0
  BY DEF Lesc, PeripheralOK
<1>4. /\ \A y \in Elems(q) : y \notin K => y \in Elems(a)
      /\ \A T : NoneIn(q, T) => NoneIn(a, T)
      /\ \A T : NoneIn(a, T) /\ (\A x \in K : x.t \notin T) => NoneIn(q, T)
      /\ \A T, U : Never(a, T, U) /\ (\A x \in K : x.t \notin U) => Never(q, T, U)
      /\ \A v, y : Before(a, v, y) => v \in Elems(a) /\ y \in Elems(a)
      /\ IsQueue(q)
  BY QueueElements DEF Extends, NoneIn, Never
<1>5. PeripheralOK(s, n, u, o)
  BY <1>1, <1>3 DEF Lesc, PeripheralOK, KeysKnown, Shown, Generated
<1>6. ToCentral(q, n, u, o)
  BY <1>2, <1>4 DEF Lesc, ToCentral
<1>7. NoneIn(a, Rsp) /\ NoneIn(q, Rsp)
  BY <1>1, <1>2, <1>4 DEF Lesc, Old
<1>8. Requests(c, s, q, b, n)
  <2>1. \A y \in Elems(q) : y.t \notin Rsp
    BY <1>7 DEF NoneIn
  <2>2. \A y, i : y \in Elems(q) /\ Committed(y, i) => y \in Elems(a)
    BY <1>2, <1>4 DEF Committed
  <2> QED
    BY <1>7, <2>1, <2>2 DEF Lesc, Requests
<1>9. PublicKeys(c, s, b)
  BY DEF Lesc, PublicKeys
<1>10. RoundsOK(c, s, b)
  BY DEF Lesc, RoundsOK
<1>11. Old(c, s, q, b)
  <2>1. Never(q, Rsp, Started)
    BY <1>7 DEF Never, NoneIn
  <2> QED
    BY <1>7, <2>1 DEF Old
<1>12. Checks(c, s, q, b, k)
  <2>1. NoneIn(a, EncRsp) => NoneIn(q, EncRsp)
    BY <1>2, <1>4
  <2>2. \A y \in Elems(q) : y.t \in Dh => y \in Elems(a)
    BY <1>2, <1>4
  <2> QED
    BY <1>1, <1>7, <2>1, <2>2 DEF Lesc, Checks
<1>13. Distribution(c, s, q, b, o)
  <2>1. \A y \in Elems(b) : y.t \in Keys =>
          /\ KeyPdu(y, C, s.id, o)
          /\ s.id = c.id => c.state = "done"
    BY <1>3 DEF Lesc, Distribution
  <2>2. c.state \in Over => p.id = c.id
    <3>1. c.state \in Over => Linked(c) /\ c.id # 0
      BY DEF Lesc, CentralOK, Linked, Over
    <3> QED
      BY <1>3, <3>1 DEF Lesc, Requests
  <2>3. ASSUME c.state \in Over, NEW y \in Elems(q), y.t \in Keys
        PROVE  KeyPdu(y, P, c.id, o)
    <3>1. CASE y \in K
      BY <2>2, <2>3, <3>1 DEF KeysOnly
    <3>2. CASE y \in Elems(a)
      BY <2>3, <3>2 DEF Lesc, Distribution
    <3> QED
      BY <1>4, <3>1, <3>2
  <2> QED
    BY <1>1, <2>1, <2>3 DEF Distribution
<1>14. Encryption(q, b, k, z)
  <2>1. NoneIn(q, EncRsp) /\ NoneIn(b, EncReq)
    BY <1>2, <1>4 DEF Encrypted
  <2>2. Never(q, StartReq, EncRsp)
    BY <1>2, <1>4 DEF Lesc, Encryption
  <2> QED
    BY <2>1, <2>2 DEF Encryption, Encrypted
<1>15. BondsOK(c, s, b, d, u, o)
  BY <1>1 DEF Lesc, BondsOK, StoredOK, Stored
<1> QED
  BY <1>4, <1>5, <1>6, <1>8, <1>9, <1>10, <1>11, <1>12, <1>13, <1>14, <1>15 DEF Lesc

\* The peripheral takes a key of the central.
LEMMA PeripheralTakesKey ==
  ASSUME NEW c, NEW p, NEW a, NEW b, NEW k, NEW z, NEW n, NEW u, NEW d, NEW o,
         Lesc(c, p, a, b, k, z, n, u, d, o), p.state \in Late,
         NEW s, s.state = p.state \/ s.state = "done", s.id = p.id, s.ipar = p.ipar,
         s.rpar = p.rpar, s.method = p.method, s.own = p.own, s.peer = p.peer,
         s.passkey = p.passkey, s.ltk = p.ltk, s.got.ltk = p.got.ltk, KeysKnown(s, P, C, o),
         s.irk = p.irk, s.csrk = p.csrk
  PROVE  Lesc(c, s, a, b, k, z, n, u, d, o)
<1>1. /\ s.state \in Late /\ s.state \in Asked /\ p.state \in Asked
      /\ p.state \in {"dhkey_sent", "distribute", "done"}
  BY DEF Late, Asked
<1>2. PeripheralOK(s, n, u, o)
  BY <1>1 DEF Lesc, PeripheralOK, Shown
<1>3. Requests(c, s, a, b, n)
  BY DEF Lesc, Requests
<1>4. PublicKeys(c, s, b)
  BY DEF Lesc, PublicKeys
<1>5. RoundsOK(c, s, b)
  BY <1>1 DEF Lesc, RoundsOK
<1>6. Old(c, s, a, b)
  BY <1>1 DEF Lesc, Old, NothingOld
<1>7. Checks(c, s, a, b, k)
  BY <1>1 DEF Lesc, Checks
<1>8. Distribution(c, s, a, b, o)
  BY <1>1 DEF Lesc, Distribution, Generated
<1>9. BondsOK(c, s, b, d, u, o)
  BY <1>1 DEF Lesc, BondsOK, StoredOK, Stored
<1> QED
  BY <1>2, <1>3, <1>4, <1>5, <1>6, <1>7, <1>8, <1>9 DEF Lesc

\* The peripheral, done, stores the pairing.
LEMMA PeripheralStores ==
  ASSUME NEW c, NEW p, NEW a, NEW b, NEW k, NEW z, NEW n, NEW u, NEW d, NEW o,
         Lesc(c, p, a, b, k, z, n, u, d, o), p.state = "done", Generated(p, o),
         p.id = c.id => c.state = "done",
         NEW e, /\ e[C] = d[C]
                /\ \A f \in e[P] : f \in d[P] \/ f = Bond(p)
  PROVE  Lesc(c, p, a, b, k, z, n, u, e, o)
<1> DEFINE f == Bond(p)
<1>1. /\ f.id = p.id /\ f.auth = Authenticated(p.method)
      /\ f.own.ltk = p.ltk /\ f.own.irk = p.irk /\ f.own.csrk = p.csrk
      /\ f.peer.ltk = p.got.ltk /\ f.peer.irk = p.got.irk /\ f.peer.csrk = p.got.csrk
  BY DEF Bond
<1>2. /\ e[C] = d[C] /\ \A g \in e[P] : g \in d[P] \/ g = f
  OBVIOUS
<1> HIDE DEF f
<1>3. p.state \in Late /\ p.id # 0 /\ KeysKnown(p, P, C, o)
  BY DEF Late, Lesc, PeripheralOK
<1>4. f.auth = Auth(o) /\ BothDid(p.id, u, o) /\ f.peer.ltk = f.own.ltk
  BY <1>1, <1>3 DEF Lesc, PeripheralOK, Auth
<1>5. StoredOK(c, C, P, e, u, o)
  BY <1>2 DEF Lesc, BondsOK, StoredOK
<1>6. StoredOK(p, P, C, e, u, o)
  <2>1. StoredOK(p, P, C, d, u, o)
    BY DEF Lesc, BondsOK
  <2> QED
    BY <1>1, <1>2, <1>3, <1>4, <2>1 DEF StoredOK, KeysKnown, Generated
<1>7. Stored(c, p, b, e)
  <2>1. Stored(c, p, b, d)
    BY DEF Lesc, BondsOK
  <2>2. Peers = {C, P} /\ Other(C) = P /\ Other(P) = C
    BY TwoSides DEF Peers, C, P
  <2>3. p.id = c.id => c.state \in Over /\ p.ltk = c.ltk
    BY DEF Lesc, Checks, Over
  <2>4. \A x \in Elems(b) : x.t \in Req => x.v.id # p.id
    <3>1. \A x \in Elems(b) : x.t \in Req => x.v.id > p.id /\ x.v.id \in 1..n
      BY DEF Lesc, Requests, ToPeripheral
    <3>2. p.id \in 0..n /\ n \in Nat
      BY DEF Lesc, PeripheralOK
    <3> QED
      BY <3>1, <3>2
  <2> QED
    BY <1>1, <1>2, <1>3, <2>1, <2>2, <2>3, <2>4 DEF Stored
<1> QED
  BY <1>5, <1>6, <1>7 DEF Lesc, BondsOK

-----------------------------------------------------------------------------
(* LE Secure Connections: the steps                                        *)

Good == PairingAssumption /\ Inv /\ BothLesc /\ LescInv

LEMMA TwoPeers ==
  /\ C \in Peers /\ P \in Peers /\ C # P /\ Other(C) = P /\ Other(P) = C
  /\ \A q \in Peers : q = C \/ q = P
  BY TwoSides DEF C, P, Peers

\* What every step may use of the invariant.
LEMMA Known ==
  ASSUME Good
  PROVE  /\ Lesc(sm[C], sm[P], net[C], net[P], key, session, requests, consent, bonds, par)
         /\ requests \in Nat /\ IsQueue(net[C]) /\ IsQueue(net[P])
         /\ \A q \in Peers : \A e \in bonds[q] : e.id \in 1..requests
         /\ DOMAIN sm = Peers /\ DOMAIN net = Peers /\ DOMAIN bonds = Peers
         /\ \A q \in Peers : DOMAIN sm[q] = Fields /\ sm[q].round \in 1..Rounds
         /\ \A q \in Peers : DOMAIN sm[q].got = {"ltk", "ediv", "irk", "address", "csrk"}
         /\ \A q \in Peers : sm[q].ipar # NoParameters \/ sm[q].rpar # NoParameters =>
                               sm[q].state # "idle"
         /\ sm[C].state # "idle" => sm[C].initiator
         /\ sm[P].state # "idle" => ~sm[P].initiator
         /\ Rounds \in Nat \ {0}
<1>1. /\ Sides /\ Lesc(sm[C], sm[P], net[C], net[P], key, session, requests, consent, bonds, par)
      /\ Rounds \in Nat \ {0}
  BY DEF Good, Inv, LescInv, PairingAssumption
<1>2. C = "central" /\ P # "central"
  BY DEF C, P
<1>3. \A q \in Peers : SideOK(q, sm[q], requests) /\ \A e \in bonds[q] : BondOK(q, e, requests)
  BY <1>1 DEF Sides
<1>4. requests \in Nat /\ DOMAIN sm = Peers /\ DOMAIN net = Peers /\ DOMAIN bonds = Peers
  BY <1>1 DEF Sides
<1>5. IsQueue(net[C]) /\ IsQueue(net[P])
  BY <1>1 DEF Lesc
<1> HIDE DEF NoParameters
<1> QED
  BY <1>1, <1>2, <1>3, <1>4, <1>5, TwoPeers DEF SideOK, BondOK

LEMMA KnownMethod ==
  ASSUME Good
  PROVE  /\ \A q \in Peers : par[q] # NoParameters
         /\ Chosen(par).lesc
         /\ Chosen(par).kind \in {"justworks", "passkey", "numcomp"}
         /\ Auth(par) <=> Chosen(par).kind # "justworks"
<1>1. C \in Peers /\ P \in Peers
  BY TwoPeers
<1>2. par[C].lesc /\ par[P].lesc
  BY <1>1 DEF Good, BothLesc
<1>3. \A q \in Peers : par[q].lesc
  BY DEF Good, BothLesc
<1>4. Chosen(par).lesc /\ Chosen(par).kind \in {"justworks", "passkey", "numcomp"}
  BY <1>2 DEF Chosen, Method, IoMethod
<1>5. Auth(par) <=> Chosen(par).kind # "justworks"
  BY <1>4 DEF Auth, Authenticated
<1>6. ~NoParameters.lesc
  BY DEF NoParameters
<1> QED
  BY <1>3, <1>4, <1>5, <1>6

\* What a handler of a side does to the two queues.
LEMMA CentralHandles ==
  ASSUME Good, NEW s, NEW out, Handle(C, s, out), net[C] # <<>>
  PROVE  /\ sm'[C] = s /\ sm'[P] = sm[P]
         /\ Shrinks(net[C], Head(net[C]), net'[C])
         /\ net'[P] = net[P] \o out
  BY Known, TwoPeers, ShrinksTo DEF Handle

LEMMA PeripheralHandles ==
  ASSUME Good, NEW s, NEW out, Handle(P, s, out), net[P] # <<>>
  PROVE  /\ sm'[P] = s /\ sm'[C] = sm[C]
         /\ Shrinks(net[P], Head(net[P]), net'[P])
         /\ net'[C] = net[C] \o out
  BY Known, TwoPeers, ShrinksTo DEF Handle

LEMMA SendsNothing == ASSUME NEW s, IsQueue(s) PROVE s \o <<>> = s
<1>1. PICK S : s \in Seq(S)
  BY DEF IsQueue
<1> QED
  BY <1>1, ConcatEmptySeq

LEMMA SendsTwo ==
  ASSUME NEW s, IsQueue(s), NEW x, NEW y
  PROVE  /\ Grows(s, x, s \o <<x>>)
         /\ Grows(s \o <<x>>, y, s \o <<x, y>>)
<1>1. PICK S : s \in Seq(S)
  BY DEF IsQueue
<1>2. s \in Seq(S \cup {x, y}) /\ <<x>> \in Seq(S \cup {x, y}) /\ <<y>> \in Seq(S \cup {x, y})
  BY <1>1
<1>3. (s \o <<x>>) \o <<y>> = s \o (<<x>> \o <<y>>)
  BY <1>2, ConcatAssociative
<1>4. <<x>> \o <<y>> = <<x, y>>
  <2>1. /\ <<x>> \in Seq({x, y}) /\ <<y>> \in Seq({x, y}) /\ <<x, y>> \in Seq({x, y})
        /\ Len(<<x>>) = 1 /\ Len(<<y>>) = 1 /\ Len(<<x, y>>) = 2
        /\ <<x>>[1] = x /\ <<y>>[1] = y /\ <<x, y>>[1] = x /\ <<x, y>>[2] = y
    OBVIOUS
  <2> DEFINE r == <<x>> \o <<y>>
  <2>2. /\ r \in Seq({x, y}) /\ Len(r) = 2
        /\ \A i \in 1..2 : r[i] = IF i <= 1 THEN <<x>>[i] ELSE <<y>>[i - 1]
    BY <2>1, ConcatProperties
  <2>3. r[1] = x /\ r[2] = y
    BY <2>1, <2>2
  <2>4. \A i \in 1..2 : r[i] = <<x, y>>[i]
    BY <2>1, <2>3
  <2> QED
    BY <2>1, <2>2, <2>4, SeqEqual
<1>5. Grows(s, x, s \o <<x>>)
  BY GrowsBy
<1>6. IsQueue(s \o <<x>>)
  BY <1>5 DEF Grows
<1>7. Grows(s \o <<x>>, y, (s \o <<x>>) \o <<y>>)
  BY <1>6, GrowsBy
<1> QED
  BY <1>3, <1>4, <1>5, <1>7

LEMMA CentralSends ==
  ASSUME Good, NEW s, NEW x, Handle(C, s, <<x>>), net[C] # <<>>
  PROVE  /\ sm'[C] = s /\ sm'[P] = sm[P]
         /\ Shrinks(net[C], Head(net[C]), net'[C])
         /\ Grows(net[P], x, net'[P])
<1>1. /\ sm'[C] = s /\ sm'[P] = sm[P] /\ Shrinks(net[C], Head(net[C]), net'[C])
      /\ net'[P] = net[P] \o <<x>>
  BY CentralHandles
<1>2. IsQueue(net[P])
  BY Known
<1>3. Grows(net[P], x, net[P] \o <<x>>)
  BY <1>2, GrowsBy
<1> QED
  BY <1>1, <1>3

LEMMA PeripheralSends ==
  ASSUME Good, NEW s, NEW x, Handle(P, s, <<x>>), net[P] # <<>>
  PROVE  /\ sm'[P] = s /\ sm'[C] = sm[C]
         /\ Shrinks(net[P], Head(net[P]), net'[P])
         /\ Grows(net[C], x, net'[C])
<1>1. /\ sm'[P] = s /\ sm'[C] = sm[C] /\ Shrinks(net[P], Head(net[P]), net'[P])
      /\ net'[C] = net[C] \o <<x>>
  BY PeripheralHandles
<1>2. IsQueue(net[C])
  BY Known
<1>3. Grows(net[C], x, net[C] \o <<x>>)
  BY <1>2, GrowsBy
<1> QED
  BY <1>1, <1>3

\* Nothing changes but the sides and the PDUs on their way.
Only == UNCHANGED <<scenario, key, session, bonds, requests, consent>>

LEMMA OnlyLesc ==
  ASSUME Good, Only,
         Lesc(sm'[C], sm'[P], net'[C], net'[P], key, session, requests, consent, bonds, par)
  PROVE  LescInv'
<1>1. par' = par
  BY DEF Only, par
<1> QED
  BY <1>1 DEF Only, Good, LescInv

LEMMA RestedBy ==
  ASSUME NEW s
  PROVE  Rested(Reset(s)) /\ Rested(Failed(s))
<1>1. Reset(s).got = NoKeys /\ Reset(s).state = "idle" /\ Reset(s).id = 0
      /\ Reset(s).rpar = NoParameters /\ Reset(s).irk = None /\ Reset(s).csrk = None
      /\ Reset(s).peer = None
  BY DEF Reset, Fresh
<1>2. NoKeys.irk = None /\ NoKeys.csrk = None
  BY DEF NoKeys
<1>3. Failed(s).got = NoKeys /\ Failed(s).state = "idle" /\ Failed(s).id = 0
      /\ Failed(s).rpar = NoParameters /\ Failed(s).irk = None /\ Failed(s).csrk = None
      /\ Failed(s).peer = None
  BY <1>1 DEF Failed, Reset, Fresh
<1> QED
  BY <1>1, <1>2, <1>3 DEF Rested, Keyless

\* A central that gives up tells the peripheral; one told so, or whose
\* application has seen the outcome, does not.
LEMMA CentralRefuses ==
  ASSUME Good, Refuse(C), Only, net[C] # <<>>, Head(net[C]).t \notin EncRsp
  PROVE  LescInv'
<1> DEFINE s == Failed(sm[C])
           x == Notice("failed")
<1>1. /\ sm'[C] = s /\ sm'[P] = sm[P] /\ Shrinks(net[C], Head(net[C]), net'[C])
      /\ Grows(net[P], x, net'[P])
  <2>1. Handle(C, s, <<x>>)
    BY DEF Refuse
  <2> HIDE DEF s, x
  <2> QED
    BY <2>1, CentralSends
<1>2. Rested(s)
  BY RestedBy
<1>3. x.t = "failed"
  BY DEF Notice, Pdu
<1> HIDE DEF s, x
<1>4. Lesc(sm[C], sm[P], net'[C], net[P], key, session, requests, consent, bonds, par)
  BY <1>1, Known, TakenByCentral
<1>5. Lesc(s, sm[P], net'[C], net[P], key, session, requests, consent, bonds, par)
  BY <1>2, <1>4, Known, CentralRests
<1>6. Lesc(s, sm[P], net'[C], net'[P], key, session, requests, consent, bonds, par)
  BY <1>1, <1>3, <1>5, SentPlainlyToPeripheral
<1> QED
  BY <1>1, <1>6, OnlyLesc

LEMMA PeripheralRefuses ==
  ASSUME Good, Refuse(P), Only, net[P] # <<>>
  PROVE  LescInv'
<1> DEFINE s == Failed(sm[P])
           x == Notice("failed")
<1>1. /\ sm'[P] = s /\ sm'[C] = sm[C] /\ Shrinks(net[P], Head(net[P]), net'[P])
      /\ Grows(net[C], x, net'[C])
  <2>1. Handle(P, s, <<x>>)
    BY DEF Refuse
  <2> HIDE DEF s, x
  <2> QED
    BY <2>1, PeripheralSends
<1>2. Rested(s)
  BY RestedBy
<1>3. x.t = "failed" /\ x.t \notin Pk
  BY DEF Notice, Pdu, Pk
<1> HIDE DEF s, x
<1>4. Lesc(sm[C], s, net[C], net[P], key, session, requests, consent, bonds, par)
  BY <1>2, Known, PeripheralRests
<1>5. s.state = "idle"
  BY <1>2 DEF Rested
<1>6. Lesc(sm[C], s, net[C], net'[P], key, session, requests, consent, bonds, par)
  BY <1>1, <1>4, <1>5, TakenByPeripheral
<1>7. Lesc(sm[C], s, net'[C], net'[P], key, session, requests, consent, bonds, par)
  BY <1>1, <1>3, <1>6, SentPlainlyToCentral
<1> QED
  BY <1>1, <1>7, OnlyLesc

LEMMA OnFailedLesc ==
  ASSUME Good, NEW q \in Peers, OnFailed(q)
  PROVE  LescInv'
<1> DEFINE s == Failed(sm[q])
<1>1. /\ Received(q, "failed") /\ Handle(q, s, <<>>) /\ Only /\ net[q] # <<>>
      /\ Head(net[q]).t = "failed"
  BY DEF OnFailed, Received, Only_sm_net, Only, link, ghosts
<1>2. Rested(s)
  BY RestedBy
<1>3. "failed" \notin EncRsp
  BY DEF EncRsp
<1> HIDE DEF s
<1>4. CASE q = C
  <2>1. /\ sm'[C] = s /\ sm'[P] = sm[P] /\ Shrinks(net[C], Head(net[C]), net'[C])
        /\ net'[P] = net[P]
    BY <1>1, <1>4, CentralHandles, Known, SendsNothing
  <2>2. Lesc(sm[C], sm[P], net'[C], net[P], key, session, requests, consent, bonds, par)
    BY <1>1, <1>3, <1>4, <2>1, Known, TakenByCentral
  <2>3. Lesc(s, sm[P], net'[C], net[P], key, session, requests, consent, bonds, par)
    BY <1>2, <2>2, Known, CentralRests
  <2> QED
    BY <1>1, <2>1, <2>3, OnlyLesc
<1>5. CASE q = P
  <2>1. /\ sm'[P] = s /\ sm'[C] = sm[C] /\ Shrinks(net[P], Head(net[P]), net'[P])
        /\ net'[C] = net[C]
    BY <1>1, <1>5, PeripheralHandles, Known, SendsNothing
  <2>2. Lesc(sm[C], s, net[C], net[P], key, session, requests, consent, bonds, par)
    BY <1>2, Known, PeripheralRests
  <2>3. s.state = "idle"
    BY <1>2 DEF Rested
  <2>4. Lesc(sm[C], s, net[C], net'[P], key, session, requests, consent, bonds, par)
    BY <2>1, <2>2, <2>3, TakenByPeripheral
  <2> QED
    BY <1>1, <2>1, <2>4, OnlyLesc
<1> QED
  BY <1>4, <1>5, TwoPeers

-----------------------------------------------------------------------------
(* LE Secure Connections: handlers of the central                          *)

\* The first PDU for a side.
LEMMA FirstPdu ==
  ASSUME Good, NEW q \in Peers, net[q] # <<>>
  PROVE  /\ Head(net[q]) \in Elems(net[q]) /\ \A T : FirstOf(net[q], T, Head(net[q]))
         /\ q = C => Head(net[q]).t \in ToC
         /\ q = P => Head(net[q]).t \in ToP
<1>1. IsQueue(net[q])
  BY Known, TwoPeers
<1>2. Shrinks(net[q], Head(net[q]), Tail(net[q]))
  BY <1>1, ShrinksTo
<1>3. Head(net[q]) \in Elems(net[q]) /\ \A T : FirstOf(net[q], T, Head(net[q]))
  BY <1>2 DEF Shrinks
<1> QED
  BY <1>3, Known DEF Lesc, ToCentral, ToPeripheral

\* The types of PDU tell the two directions apart.
LEMMA Directions ==
  /\ "security_request" \notin ToP /\ "pairing_response" \notin ToP /\ "pairing_request" \notin ToC
  /\ "enc_rsp" \notin ToP /\ "start_enc_req" \notin ToP /\ "enc_req" \notin ToC
  /\ \A t \in {"encryption_information", "master_identification"} : t \notin ToP \cup ToC
  BY DEF ToP, ToC, Req, Rsp, Pk, Cfm, Dh, EncReq, EncRsp, StartReq, StartRsp, Keys

LEMMA Initiates ==
  ASSUME Good
  PROVE  LET s == Initiate(C) IN
         /\ s.state = "pairing_rsp" /\ s.id = requests + 1 /\ s.ipar = par[C]
         /\ s.rpar = NoParameters /\ Keyless(s)
         /\ PairingRequest.t \in Req /\ PairingRequest.v.id = requests + 1
         /\ PairingRequest.v.par = par[C]
<1>1. NoKeys.irk = None /\ NoKeys.csrk = None
  BY DEF NoKeys
<1>2. LET s == Initiate(C) IN
      /\ s.state = "pairing_rsp" /\ s.id = requests + 1 /\ s.ipar = par[C]
      /\ s.rpar = NoParameters /\ s.irk = None /\ s.csrk = None /\ s.got = NoKeys
  BY DEF Initiate, Reset, Fresh
<1>3. PairingRequest.t = "pairing_request" /\ PairingRequest.v.id = requests + 1
      /\ PairingRequest.v.par = par[C]
  BY DEF PairingRequest, Pdu, C
<1> QED
  BY <1>1, <1>2, <1>3 DEF Keyless, Req

LEMMA OnSecurityRequestLesc ==
  ASSUME Good, NEW q \in Peers, OnSecurityRequest(q)
  PROVE  LescInv'
<1>1. /\ net[q] # <<>> /\ Head(net[q]).t = "security_request"
      /\ Handle(q, Initiate(q), <<PairingRequest>>) /\ requests' = requests + 1
      /\ UNCHANGED <<scenario, key, session, bonds, consent>>
  BY DEF OnSecurityRequest, Received, link
<1>2. q = C
  BY <1>1, FirstPdu, Directions, TwoPeers
<1>3. /\ sm'[C] = Initiate(C) /\ sm'[P] = sm[P] /\ Shrinks(net[C], Head(net[C]), net'[C])
      /\ Grows(net[P], PairingRequest, net'[P])
  BY <1>1, <1>2, CentralSends
<1>4. "security_request" \notin EncRsp
  BY DEF EncRsp
<1>5. Lesc(sm[C], sm[P], net'[C], net[P], key, session, requests, consent, bonds, par)
  BY <1>1, <1>2, <1>3, <1>4, Known, TakenByCentral
<1>6. Lesc(Initiate(C), sm[P], net'[C], net'[P], key, session, requests + 1, consent, bonds, par)
  BY <1>3, <1>5, Known, Initiates, CentralAsks
<1> QED
  BY <1>1, <1>3, <1>6 DEF LescInv, Good, par

LEMMA OnPairingResponseLesc ==
  ASSUME Good, NEW q \in Peers, OnPairingResponse(q)
  PROVE  LescInv'
<1> DEFINE h == Head(net[C])
           m == Method(sm[C].ipar, h.v)
           s == [sm[C] EXCEPT !.rpar = h.v, !.method = m]
           t == [s EXCEPT !.own = KeyPair(C, s), !.state = "pubkey_sent"]
           x == Pdu("public_key", KeyPair(C, s))
<1>1. net[q] # <<>> /\ Head(net[q]).t = "pairing_response" /\ sm[q].state = "pairing_rsp"
  BY DEF OnPairingResponse, In, Received
<1>2. q = C
  BY <1>1, FirstPdu, Directions, TwoPeers
<1>3. h \in Elems(net[C]) /\ h.t \in Rsp
  BY <1>1, <1>2, FirstPdu DEF Rsp
<1>4. h.v = par[P] /\ sm[C].ipar = par[C]
  BY <1>1, <1>2, <1>3, Known DEF Lesc, ToCentral, CentralOK
<1>5. m = Chosen(par) /\ m.lesc
  BY <1>4, KnownMethod DEF Chosen
<1>6. Handle(C, t, <<x>>) /\ Only
  BY <1>2, <1>5 DEF OnPairingResponse, Only, link, Value
<1>7. /\ sm'[C] = t /\ sm'[P] = sm[P] /\ Shrinks(net[C], h, net'[C]) /\ Grows(net[P], x, net'[P])
  BY <1>1, <1>2, <1>6, CentralSends
<1>8. /\ t.state = "pubkey_sent" /\ t.id = sm[C].id /\ t.ipar = sm[C].ipar /\ t.rpar = par[P]
      /\ t.method = Chosen(par) /\ t.own = <<C, sm[C].id>> /\ Keyless(t)
  <2>1. Keyless(sm[C])
    BY <1>1, <1>2, Known DEF Lesc, CentralOK
  <2>2. DOMAIN sm[C] = Fields
    BY Known, TwoPeers
  <2> QED
    BY <1>4, <1>5, <2>1, <2>2 DEF Keyless, KeyPair, Fields
<1>9. x.t \in Pk /\ x.v = <<C, sm[C].id>>
  <2>1. DOMAIN sm[C] = Fields
    BY Known, TwoPeers
  <2> QED
    BY <2>1 DEF Pk, Pdu, KeyPair, Fields
<1>10. /\ NoneIn(net[P], EncReq) /\ NoneIn(net[P], Dh) /\ sm[P].state \notin Late
       /\ Never(net[C], Rsp, Started)
  BY <1>3, Known DEF Lesc, Old, Checks, NoneIn
<1>11. NoneIn(net'[C], Started) /\ h.t \notin EncRsp
  BY <1>3, <1>7, <1>10 DEF Shrinks, EncRsp, Rsp
<1> HIDE DEF h, m, s, t, x
<1>12. Lesc(sm[C], sm[P], net'[C], net[P], key, session, requests, consent, bonds, par)
  BY <1>7, <1>11, Known, TakenByCentral
<1>13. Lesc(t, sm[P], net'[C], net'[P], key, session, requests, consent, bonds, par)
  BY <1>1, <1>2, <1>7, <1>8, <1>9, <1>10, <1>11, <1>12, CentralShowsKey
<1> QED
  BY <1>6, <1>7, <1>13, OnlyLesc

LEMMA OnPublicKeyOfResponderLesc ==
  ASSUME Good, NEW q \in Peers, OnPublicKeyOfResponder(q)
  PROVE  LescInv'
<1> DEFINE h == Head(net[C])
           s == [sm[C] EXCEPT !.peer = h.v]
           v == [s EXCEPT !.state = "pubkey_recvd"]
<1>1. /\ net[q] # <<>> /\ Head(net[q]).t = "public_key" /\ sm[q].state = "pubkey_sent"
      /\ UNCHANGED <<scenario, key, session, bonds, requests>>
  BY DEF OnPublicKeyOfResponder, In, Received, link
<1>2. q = C
  BY <1>1, Known, TwoPeers DEF Lesc, PeripheralOK, Asked
<1>3. h \in Elems(net[C]) /\ h.t \in Pk /\ h.t \notin EncRsp
  BY <1>1, <1>2, FirstPdu DEF Pk, EncRsp
<1>4. \E i \in 1..requests : h.v = <<P, i>>
  BY <1>3, Known DEF Lesc, ToCentral
<1>5. Keyless(sm[C]) /\ sm[C].own = <<C, sm[C].id>> /\ sm[C].method = Chosen(par)
  BY <1>1, <1>2, Known DEF Lesc, CentralOK, Mid
<1>6. DOMAIN sm[C] = Fields
  BY Known, TwoPeers
<1>7. CASE /\ sm[C].method.kind # "passkey" /\ Handle(C, v, <<>>) /\ UNCHANGED consent
  <2>1. /\ sm'[C] = v /\ sm'[P] = sm[P] /\ Shrinks(net[C], h, net'[C]) /\ net'[P] = net[P] /\ Only
    <3>1. Only
      BY <1>1, <1>7 DEF Only
    <3>2. net[C] # <<>> /\ Handle(C, v, <<>>)
      BY <1>1, <1>2, <1>7
    <3>3. IsQueue(net[P])
      BY Known
    <3> HIDE DEF v
    <3>4. /\ sm'[C] = v /\ sm'[P] = sm[P] /\ Shrinks(net[C], h, net'[C])
          /\ net'[P] = net[P] \o <<>>
      BY <3>2, CentralHandles
    <3> QED
      BY <3>1, <3>3, <3>4, SendsNothing
  <2>2. /\ v.state = "pubkey_recvd" /\ v.id = sm[C].id /\ v.ipar = sm[C].ipar /\ v.rpar = sm[C].rpar
        /\ v.method = sm[C].method /\ v.own = sm[C].own /\ Keyless(v) /\ v.peer = h.v
    BY <1>5, <1>6 DEF Keyless, Fields
  <2> HIDE DEF h, s, v
  <2>3. Lesc(sm[C], sm[P], net'[C], net[P], key, session, requests, consent, bonds, par)
    BY <1>3, <2>1, Known, TakenByCentral
  <2>4. Lesc(v, sm[P], net'[C], net'[P], key, session, requests, consent, bonds, par)
    BY <1>1, <1>2, <1>4, <1>7, <2>1, <2>2, <2>3, CentralKeepsKey
  <2> QED
    BY <2>1, <2>4, OnlyLesc
<1>8. ASSUME NEW k \in Passkeys, sm[C].method.kind = "passkey",
             BitOfInitiator(C, [s EXCEPT !.round = 1, !.passkey = k]), Typed(C, s.method, s.id, k)
      PROVE  LescInv'
  <2> DEFINE r == [s EXCEPT !.round = 1, !.passkey = k]
             t == [r EXCEPT !.irand = Rand(C, r), !.state = "confirm_sent_stage"]
             g == Confirm(t.own, t.peer, t.irand, PasskeyBit(t))
             w == [t EXCEPT !.iconf = g]
             x == Pdu("confirm", g)
  <2>1. Handle(C, w, <<x>>)
    BY <1>8 DEF BitOfInitiator
  <2>2. /\ sm'[C] = w /\ sm'[P] = sm[P] /\ Shrinks(net[C], h, net'[C]) /\ Grows(net[P], x, net'[P])
    BY <1>1, <1>2, <2>1, CentralSends
  <2>3. consent' = consent \cup {<<C, sm[C].id, k>>}
    BY <1>6, <1>8 DEF Typed, Fields
  <2>4. Consented(C, sm[C].id, k, consent', par)
    BY <2>3 DEF Consented, Pins
  <2>5. /\ w.state = "confirm_sent_stage" /\ w.id = sm[C].id /\ w.ipar = sm[C].ipar /\ w.rpar = sm[C].rpar
        /\ w.method = sm[C].method /\ w.own = sm[C].own /\ Keyless(w) /\ w.peer = h.v
        /\ w.passkey = k /\ w.iconf = g /\ t.own = sm[C].own
    BY <1>5, <1>6 DEF Keyless, Fields
  <2>6. w.iconf[2] = <<C, sm[C].id>>
    BY <1>5, <2>5 DEF Confirm
  <2>7. x.t \in Cfm
    BY DEF Pdu, Cfm
  <2> HIDE DEF h, s, v, r, t, g, w, x
  <2>8. Lesc(sm[C], sm[P], net[C], net[P], key, session, requests, consent', bonds, par)
    BY <2>3, Known, MoreConsent
  <2>9. Lesc(sm[C], sm[P], net'[C], net[P], key, session, requests, consent', bonds, par)
    BY <1>3, <2>2, <2>8, TakenByCentral
  <2>10. Lesc(w, sm[P], net'[C], net'[P], key, session, requests, consent', bonds, par)
    BY <1>1, <1>2, <1>4, <1>8, <2>2, <2>4, <2>5, <2>6, <2>7, <2>9, CentralCommits
  <2> QED
    BY <1>1, <2>2, <2>10 DEF LescInv, Good, par
<1>9. s.method = sm[C].method
  BY <1>6 DEF Fields
<1> QED
  BY <1>2, <1>7, <1>8, <1>9 DEF OnPublicKeyOfResponder, Value

\* The values a central in the middle of a pairing holds.
LEMMA CentralHolds ==
  ASSUME Good, sm[C].state \in Mid
  PROVE  /\ sm[C].own = <<C, sm[C].id>> /\ sm[C].method = Chosen(par) /\ Keyless(sm[C])
         /\ DOMAIN sm[C] = Fields
         /\ DOMAIN sm[C].got = {"ltk", "ediv", "irk", "address", "csrk"}
         /\ sm[C].state # "pubkey_sent" => \E i \in 1..requests : sm[C].peer = <<P, i>>
         /\ sm[C].initiator
  BY Known, TwoPeers DEF Lesc, CentralOK, Mid

LEMMA OnConfirmOfResponderLesc ==
  ASSUME Good, NEW q \in Peers, OnConfirmOfResponder(q)
  PROVE  LescInv'
<1> DEFINE h == Head(net[C])
           s == [sm[C] EXCEPT !.rconf = h.v]
           t == [s EXCEPT !.irand = Rand(C, s), !.state = "random_sent"]
           v == [s EXCEPT !.state = "random_sent_stage"]
           x == Pdu("random", Rand(C, s))
           y == Pdu("random", s.irand)
<1>1. /\ net[q] # <<>> /\ Head(net[q]).t = "confirm" /\ sm[q].state \in {"pubkey_recvd", "confirm_sent_stage"}
      /\ Only
  BY DEF OnConfirmOfResponder, In, Received, Only_sm_net, Only, link, ghosts
<1>2. q = C
  <2>1. CASE q = P
    <3>1. sm[P].state = "confirm_sent_stage"
      BY <1>1, <2>1, Known DEF Lesc, PeripheralOK, Asked
    <3>2. Head(net[P]) \in Elems(net[P]) /\ FirstOf(net[P], Turn, Head(net[P]))
          /\ Head(net[P]).t \in Cfm
      BY <1>1, <2>1, FirstPdu DEF Cfm
    <3> QED
      BY <3>1, <3>2, Known DEF Lesc, RoundsOK
  <2> QED
    BY <2>1, TwoPeers
<1>3. h \in Elems(net[C]) /\ h.t \in Cfm /\ h.t \notin EncRsp
  BY <1>1, <1>2, FirstPdu DEF Cfm, EncRsp
<1>4. \E i \in 1..requests : Commits(h.v, i)
  BY <1>3, Known DEF Lesc, ToCentral
<1>5. sm[C].state \in Mid
  BY <1>1, <1>2 DEF Mid
<1>6. /\ DOMAIN sm[C] = Fields /\ Keyless(sm[C])
  BY <1>5, CentralHolds
<1>7. /\ t.state = "random_sent" /\ t.id = sm[C].id /\ t.ipar = sm[C].ipar /\ t.rpar = sm[C].rpar
      /\ t.method = sm[C].method /\ t.own = sm[C].own /\ t.peer = sm[C].peer /\ Keyless(t)
      /\ t.rconf = h.v
  BY <1>6 DEF Keyless, Fields
<1>8. /\ v.state = "random_sent_stage" /\ v.id = sm[C].id /\ v.ipar = sm[C].ipar /\ v.rpar = sm[C].rpar
      /\ v.method = sm[C].method /\ v.own = sm[C].own /\ v.peer = sm[C].peer /\ Keyless(v)
      /\ v.rconf = h.v /\ v.passkey = sm[C].passkey
  BY <1>6 DEF Keyless, Fields
<1>9. x.t = "random" /\ y.t = "random"
  BY DEF Pdu
<1>10. \/ sm[C].state = "pubkey_recvd" /\ Handle(C, t, <<x>>)
       \/ sm[C].state = "confirm_sent_stage" /\ Handle(C, v, <<y>>)
  BY <1>2 DEF OnConfirmOfResponder, In, Value
<1>11. /\ sm[C].state = "pubkey_recvd" => sm[C].method.kind # "passkey"
       /\ sm[C].state = "confirm_sent_stage" =>
            sm[C].method.kind = "passkey" /\ Consented(C, sm[C].id, sm[C].passkey, consent, par)
  BY Known DEF Lesc, CentralOK
<1> HIDE DEF h, s, t, v, x, y
<1>12. Shrinks(net[C], h, net'[C])
  BY <1>1, <1>2, <1>10, CentralSends DEF h
<1>13. Commits(h.v, sm[C].id) => Fulfilled(net'[C], net[P])
  <2>1. SUFFICES ASSUME Committed(h, sm[C].id)
                 PROVE  Fulfilled(net'[C], net[P])
    BY <1>3 DEF Committed
  <2>2. NoneIn(net[P], Req) /\ \A g \in Elems(net[C]) : Before(net[C], h, g) => g.t \notin Rsp
    BY <1>3, <2>1, Known DEF Lesc, Requests
  <2>3. NoneIn(net[P], Enc) /\ \A g \in Elems(net[C]) : Before(net[C], h, g) => g.t \notin StartRsp
    BY <1>3, <1>5, <2>1, Known DEF Lesc, Old, NothingOld
  <2> QED
    BY <1>12, <2>2, <2>3 DEF Shrinks, Fulfilled, NoneIn
<1>14. Lesc(sm[C], sm[P], net'[C], net[P], key, session, requests, consent, bonds, par)
  BY <1>3, <1>12, Known, TakenByCentral
<1>15. CASE sm[C].state = "pubkey_recvd" /\ Handle(C, t, <<x>>)
  <2>1. /\ sm'[C] = t /\ sm'[P] = sm[P] /\ Grows(net[P], x, net'[P])
    BY <1>1, <1>2, <1>15, CentralSends
  <2>2. Lesc(t, sm[P], net'[C], net'[P], key, session, requests, consent, bonds, par)
    BY <1>4, <1>7, <1>9, <1>11, <1>13, <1>14, <1>15, <2>1, CentralReveals
  <2> QED
    BY <1>1, <2>1, <2>2, OnlyLesc
<1>16. CASE sm[C].state = "confirm_sent_stage" /\ Handle(C, v, <<y>>)
  <2>1. /\ sm'[C] = v /\ sm'[P] = sm[P] /\ Grows(net[P], y, net'[P])
    BY <1>1, <1>2, <1>16, CentralSends
  <2>2. Lesc(v, sm[P], net'[C], net'[P], key, session, requests, consent, bonds, par)
    BY <1>4, <1>8, <1>9, <1>11, <1>13, <1>14, <1>16, <2>1, CentralReveals
  <2> QED
    BY <1>1, <2>1, <2>2, OnlyLesc
<1> QED
  BY <1>10, <1>15, <1>16

\* A valid commitment names the two sides of one pairing.
LEMMA ValidForCentral ==
  ASSUME NEW i, NEW j, NEW k, NEW v, NEW rand, NEW r,
         Confirm(<<P, i>>, <<C, j>>, rand, r) = v,
         v[2] = <<C, j>> \/ Commits(v, k)
  PROVE  i = j /\ Commits(v, j) /\ v[2] # <<C, j>>
<1>1. v[2] = <<P, i>> /\ v[3] = <<C, j>>
  BY DEF Confirm
<1>2. <<P, i>> # <<C, j>>
  BY TwoPeers
<1>3. <<P, i>> = <<P, k>> /\ <<C, j>> = <<C, k>>
  BY <1>1, <1>2 DEF Commits
<1> QED
  BY <1>1, <1>2, <1>3 DEF Commits

\* The central has checked the commitment of the responder: it computes the
\* key, and sends its check.
LEMMA CentralSendsCheck ==
  ASSUME Good, sm[C].state \in {"random_sent", "random_sent_stage"},
         Commits(sm[C].rconf, sm[C].id), sm[C].peer = <<P, sm[C].id>>,
         net[C] # <<>>, Head(net[C]).t \notin EncRsp,
         NEW s, s = [sm[C] EXCEPT !.rrand = Head(net[C]).v],
         NEW t, t = [WithLongTermKey(s) EXCEPT !.state = "dhkey_sent"],
         Handle(C, t, <<Pdu("dhkey_check", CheckValue(t, "initiator"))>>),
         consent \subseteq consent', Consented(C, sm[C].id, Shown(sm[C]), consent', par),
         UNCHANGED <<scenario, key, session, bonds, requests>>
  PROVE  LescInv'
<1> DEFINE x == Pdu("dhkey_check", CheckValue(t, "initiator"))
           w == WithLongTermKey(s)
<1>1. sm[C].state \in Mid
  BY DEF Mid
<1>2. /\ DOMAIN s = Fields /\ s.got = sm[C].got /\ s.own = sm[C].own /\ s.peer = sm[C].peer
      /\ s.id = sm[C].id /\ s.ipar = sm[C].ipar /\ s.rpar = sm[C].rpar /\ s.method = sm[C].method
      /\ s.rconf = sm[C].rconf /\ s.passkey = sm[C].passkey /\ s.irk = sm[C].irk /\ s.csrk = sm[C].csrk
  BY <1>1, CentralHolds DEF Fields
<1>3. {s.own, s.peer} = Pair(sm[C].id)
  BY <1>1, <1>2, CentralHolds DEF Pair
<1>4. /\ DOMAIN w = Fields
      /\ w.id = s.id /\ w.ipar = s.ipar /\ w.rpar = s.rpar
      /\ w.method = s.method /\ w.own = s.own /\ w.peer = s.peer /\ w.rconf = s.rconf
      /\ w.passkey = s.passkey /\ w.irk = s.irk /\ w.csrk = s.csrk
      /\ w.got.irk = s.got.irk /\ w.got.csrk = s.got.csrk
      /\ w.got.ltk = w.ltk /\ w.ltk # None /\ w.ltk[2] = Pair(sm[C].id)
  <2>1. DOMAIN s = Fields /\ DOMAIN s.got = {"ltk", "ediv", "irk", "address", "csrk"}
    BY <1>1, <1>2, CentralHolds
  <2>2. LongTermKey(s) # None /\ LongTermKey(s)[2] = Pair(sm[C].id)
    BY <1>3 DEF LongTermKey, None
  <2> QED
    BY <2>1, <2>2 DEF WithLongTermKey, Fields
<1>5. t = [w EXCEPT !.state = "dhkey_sent"]
  OBVIOUS
<1> HIDE DEF w
<1>6. /\ t.state = "dhkey_sent" /\ t.id = sm[C].id /\ t.ipar = sm[C].ipar /\ t.rpar = sm[C].rpar
      /\ t.method = sm[C].method /\ t.own = sm[C].own /\ t.peer = sm[C].peer /\ t.rconf = sm[C].rconf
      /\ t.passkey = sm[C].passkey /\ t.irk = sm[C].irk /\ t.csrk = sm[C].csrk
      /\ t.got.irk = sm[C].got.irk /\ t.got.csrk = sm[C].got.csrk
      /\ t.got.ltk = t.ltk /\ t.ltk # None /\ t.ltk[2] = Pair(sm[C].id)
  <2>1. /\ t.state = "dhkey_sent" /\ t.id = w.id /\ t.ipar = w.ipar /\ t.rpar = w.rpar
        /\ t.method = w.method /\ t.own = w.own /\ t.peer = w.peer /\ t.rconf = w.rconf
        /\ t.passkey = w.passkey /\ t.irk = w.irk /\ t.csrk = w.csrk
        /\ t.got = w.got /\ t.ltk = w.ltk
    <3>1. DOMAIN w = Fields
      BY <1>4
    <3> QED
      BY <1>5, <3>1 DEF Fields
  <2> QED
    BY <1>2, <1>4, <2>1
<1>7. Keyless(t) /\ Shown(t) = Shown(sm[C])
  BY <1>1, <1>6, CentralHolds DEF Keyless, Shown
<1>8. x.t \in Dh /\ x.v = CheckValue(t, "initiator")
  BY DEF Pdu, Dh
<1>9. /\ sm'[C] = t /\ sm'[P] = sm[P] /\ Shrinks(net[C], Head(net[C]), net'[C])
      /\ Grows(net[P], x, net'[P])
  BY CentralSends
<1> HIDE DEF x
<1>10. Lesc(sm[C], sm[P], net[C], net[P], key, session, requests, consent', bonds, par)
  BY Known, MoreConsent
<1>11. Lesc(sm[C], sm[P], net'[C], net[P], key, session, requests, consent', bonds, par)
  BY <1>9, <1>10, TakenByCentral
<1>12. Lesc(t, sm[P], net'[C], net'[P], key, session, requests, consent', bonds, par)
  BY <1>6, <1>7, <1>8, <1>9, <1>11, CentralChecks
<1> QED
  BY <1>9, <1>12 DEF LescInv, Good, par

LEMMA OnRandomOfResponderLesc ==
  ASSUME Good, NEW q \in Peers, OnRandomOfResponder(q)
  PROVE  LescInv'
<1> DEFINE s == [sm[q] EXCEPT !.rrand = Value(q)]
           t == [WithLongTermKey(s) EXCEPT !.state = "dhkey_sent"]
           valid == Confirm(s.peer, s.own, s.rrand, 0) = s.rconf
<1>1. /\ net[q] # <<>> /\ Head(net[q]).t = "random" /\ sm[q].state = "random_sent"
      /\ UNCHANGED <<scenario, key, session, bonds, requests>>
  BY DEF OnRandomOfResponder, In, Received, link
<1>2. "random" \notin EncRsp
  BY DEF EncRsp
<1>3. DOMAIN sm[q] = Fields
  BY Known
<1>4. /\ s.peer = sm[q].peer /\ s.own = sm[q].own /\ s.rconf = sm[q].rconf /\ s.method = sm[q].method
      /\ s.id = sm[q].id
  BY <1>3 DEF Fields
<1>5. PICK yes \in BOOLEAN :
        /\ s.method.kind = "justworks" => yes
        /\ \/ yes /\ valid /\ Handle(q, t, <<Pdu("dhkey_check", CheckValue(t, "initiator"))>>)
           \/ (~yes \/ ~valid) /\ Refuse(q)
        /\ Accepts(q, s, yes /\ valid)
  BY DEF OnRandomOfResponder
<1> HIDE DEF valid, t
<1>6. CASE (~yes \/ ~valid) /\ Refuse(q)
  <2>1. consent' = consent
    BY <1>5, <1>6 DEF Accepts
  <2> QED
    BY <1>1, <1>2, <1>6, <2>1, TwoPeers, CentralRefuses, PeripheralRefuses DEF Only
<1>7. CASE yes /\ valid /\ Handle(q, t, <<Pdu("dhkey_check", CheckValue(t, "initiator"))>>)
  <2>1. q = C
    <3>1. CASE q = P
      <4>1. sm[P].rconf[2] = <<P, sm[P].id>> /\ sm[P].peer = <<C, sm[P].id>>
        BY <1>1, <3>1, Known DEF Lesc, PeripheralOK
      <4>2. sm[P].rconf[2] = sm[P].peer
        BY <1>4, <1>7, <3>1 DEF valid, Confirm
      <4> QED
        BY <4>1, <4>2, TwoPeers
    <3> QED
      BY <3>1, TwoPeers
  <2>2. sm[C].state \in Mid /\ sm[C].state # "pubkey_sent"
    BY <1>1, <2>1 DEF Mid
  <2>3. PICK i \in 1..requests : sm[C].peer = <<P, i>>
    BY <2>2, CentralHolds
  <2>4. Confirm(<<P, i>>, <<C, sm[C].id>>, s.rrand, 0) = sm[C].rconf
    BY <1>4, <1>7, <2>1, <2>2, <2>3, CentralHolds DEF valid
  <2>5. sm[C].rconf[2] = <<C, sm[C].id>> \/ \E j : Commits(sm[C].rconf, j)
    BY <1>1, <2>1, Known DEF Lesc, CentralOK
  <2>6. i = sm[C].id /\ Commits(sm[C].rconf, sm[C].id) /\ sm[C].rconf[2] # <<C, sm[C].id>>
    BY <2>4, <2>5, ValidForCentral
  <2>7. sm[C].method.kind # "passkey" /\ sm[C].method = Chosen(par)
    BY <1>1, <2>1, <2>2, <2>6, Known, CentralHolds DEF Lesc, CentralOK
  <2>8. /\ consent \subseteq consent'
        /\ sm[C].method.kind = "numcomp" => <<C, sm[C].id, 0>> \in consent'
    BY <1>4, <1>5, <1>7, <2>1 DEF Accepts
  <2>9. Consented(C, sm[C].id, Shown(sm[C]), consent', par)
    BY <2>7, <2>8, KnownMethod DEF Consented, Shown, Pins
  <2> QED
    BY <1>1, <1>2, <1>7, <2>1, <2>3, <2>6, <2>8, <2>9, CentralSendsCheck DEF t, Value
<1> QED
  BY <1>5, <1>6, <1>7

\* The commitment of the central to a bit, from a state s in which it has
\* the passkey and the key of the peripheral.
LEMMA CentralSendsBit ==
  ASSUME Good, sm[C].state \in {"pubkey_sent", "random_sent_stage"},
         sm[C].method.kind = "passkey",
         net[C] # <<>>, Head(net[C]).t \notin EncRsp,
         NEW s, DOMAIN s = Fields, s.id = sm[C].id, s.ipar = sm[C].ipar, s.rpar = sm[C].rpar,
         s.method = sm[C].method, s.own = sm[C].own, Keyless(s), \E i \in 1..requests : s.peer = <<P, i>>,
         BitOfInitiator(C, s),
         consent \subseteq consent', Consented(C, sm[C].id, s.passkey, consent', par),
         UNCHANGED <<scenario, key, session, bonds, requests>>
  PROVE  LescInv'
<1> DEFINE t == [s EXCEPT !.irand = Rand(C, s), !.state = "confirm_sent_stage"]
           g == Confirm(t.own, t.peer, t.irand, PasskeyBit(t))
           w == [t EXCEPT !.iconf = g]
           x == Pdu("confirm", g)
<1>1. Handle(C, w, <<x>>)
  BY DEF BitOfInitiator
<1>2. sm[C].own = <<C, sm[C].id>>
  BY CentralHolds DEF Mid
<1>3. /\ w.state = "confirm_sent_stage" /\ w.id = sm[C].id /\ w.ipar = sm[C].ipar /\ w.rpar = sm[C].rpar
      /\ w.method = sm[C].method /\ w.own = sm[C].own /\ Keyless(w) /\ w.peer = s.peer
      /\ w.passkey = s.passkey /\ w.iconf = g /\ t.own = sm[C].own
  BY DEF Keyless, Fields
<1>4. w.iconf[2] = <<C, sm[C].id>>
  BY <1>2, <1>3 DEF Confirm
<1>5. x.t \in Cfm
  BY DEF Pdu, Cfm
<1> HIDE DEF t, g, w, x
<1>6. /\ sm'[C] = w /\ sm'[P] = sm[P] /\ Shrinks(net[C], Head(net[C]), net'[C])
      /\ Grows(net[P], x, net'[P])
  BY <1>1, CentralSends
<1>7. Lesc(sm[C], sm[P], net[C], net[P], key, session, requests, consent', bonds, par)
  BY Known, MoreConsent
<1>8. Lesc(sm[C], sm[P], net'[C], net[P], key, session, requests, consent', bonds, par)
  BY <1>6, <1>7, TakenByCentral
<1>9. Lesc(w, sm[P], net'[C], net'[P], key, session, requests, consent', bonds, par)
  BY <1>3, <1>4, <1>5, <1>6, <1>8, CentralCommits
<1> QED
  BY <1>6, <1>9 DEF LescInv, Good, par

LEMMA OnRandomOfRoundLesc ==
  ASSUME Good, NEW q \in Peers, OnRandomOfRound(q)
  PROVE  LescInv'
<1> DEFINE s == [sm[q] EXCEPT !.rrand = Value(q)]
           t == [WithLongTermKey(s) EXCEPT !.state = "dhkey_sent"]
           valid == Confirm(s.peer, s.own, s.rrand, PasskeyBit(s)) = s.rconf
           v == [s EXCEPT !.round = @ + 1]
<1>1. /\ net[q] # <<>> /\ Head(net[q]).t = "random" /\ sm[q].state = "random_sent_stage" /\ Only
  BY DEF OnRandomOfRound, In, Received, Only_sm_net, Only, link, ghosts
<1>2. "random" \notin EncRsp
  BY DEF EncRsp
<1>3. DOMAIN sm[q] = Fields
  BY Known
<1>4. /\ s.peer = sm[q].peer /\ s.own = sm[q].own /\ s.rconf = sm[q].rconf
  BY <1>3 DEF Fields
<1>5. \/ valid /\ Handle(q, t, <<Pdu("dhkey_check", CheckValue(t, "initiator"))>>)
      \/ valid /\ BitOfInitiator(q, v)
      \/ Refuse(q)
  BY DEF OnRandomOfRound
<1> HIDE DEF valid, t
<1>6. CASE Refuse(q)
  BY <1>1, <1>2, <1>6, TwoPeers, CentralRefuses, PeripheralRefuses
<1>7. CASE valid
  <2>1. q = C
    <3>1. CASE q = P
      <4>1. sm[P].rconf[2] = <<P, sm[P].id>> /\ sm[P].peer = <<C, sm[P].id>>
        BY <1>1, <3>1, Known DEF Lesc, PeripheralOK
      <4>2. sm[P].rconf[2] = sm[P].peer
        BY <1>4, <1>7, <3>1 DEF valid, Confirm
      <4> QED
        BY <4>1, <4>2, TwoPeers
    <3> QED
      BY <3>1, TwoPeers
  <2>2. sm[C].state \in Mid /\ sm[C].state # "pubkey_sent"
    BY <1>1, <2>1 DEF Mid
  <2>3. PICK i \in 1..requests : sm[C].peer = <<P, i>>
    BY <2>2, CentralHolds
  <2>4. Confirm(<<P, i>>, <<C, sm[C].id>>, s.rrand, PasskeyBit(s)) = sm[C].rconf
    BY <1>4, <1>7, <2>1, <2>2, <2>3, CentralHolds DEF valid
  <2>5. sm[C].rconf[2] = <<C, sm[C].id>> \/ \E j : Commits(sm[C].rconf, j)
    BY <1>1, <2>1, Known DEF Lesc, CentralOK
  <2>6. i = sm[C].id /\ Commits(sm[C].rconf, sm[C].id)
    BY <2>4, <2>5, ValidForCentral
  <2>7. sm[C].method.kind = "passkey" /\ Consented(C, sm[C].id, sm[C].passkey, consent, par)
    BY <1>1, <2>1, Known DEF Lesc, CentralOK
  <2>8. Shown(sm[C]) = sm[C].passkey
    BY <2>7 DEF Shown
  <2>9. consent' = consent /\ UNCHANGED <<scenario, key, session, bonds, requests>>
    BY <1>1 DEF Only
  <2>10. CASE Handle(q, t, <<Pdu("dhkey_check", CheckValue(t, "initiator"))>>)
    BY <1>1, <1>2, <2>1, <2>3, <2>6, <2>7, <2>8, <2>9, <2>10, CentralSendsCheck DEF t, Value
  <2>11. CASE BitOfInitiator(q, v)
    <3>1. Keyless(sm[C])
      BY <2>2, CentralHolds
    <3>2. /\ DOMAIN v = Fields /\ v.id = sm[C].id /\ v.ipar = sm[C].ipar /\ v.rpar = sm[C].rpar
          /\ v.method = sm[C].method /\ v.own = sm[C].own /\ Keyless(v) /\ v.peer = sm[C].peer
          /\ v.passkey = sm[C].passkey
      BY <1>3, <2>1, <3>1 DEF Keyless, Fields
    <3> HIDE DEF v
    <3> QED
      BY <1>1, <1>2, <2>1, <2>3, <2>7, <2>9, <2>11, <3>2, CentralSendsBit
  <2> QED
    BY <1>1, <1>2, <1>5, <1>6, <2>10, <2>11
<1> QED
  BY <1>5, <1>6, <1>7

\* A key check names the role of the side that sent it.
LEMMA OnDhkeyCheckAtCentral ==
  ASSUME Good, OnDhkeyCheck(C)
  PROVE  LescInv'
<1> DEFINE h == Head(net[C])
           s == WithLongTermKey(sm[C])
           t == [sm[C] EXCEPT !.state = "dhkey_recvd"]
           x == Notice("enc_req")
<1>1. /\ net[C] # <<>> /\ h.t = "dhkey_check" /\ UNCHANGED <<scenario, session, bonds, requests, consent>>
  BY DEF OnDhkeyCheck, In, Received, ghosts
<1>2. h \in Elems(net[C]) /\ h.t \in Dh /\ h.t \notin EncRsp
  BY <1>1, FirstPdu, TwoPeers DEF Dh, EncRsp
<1>3. CheckOK(h.v, P, "responder", requests, consent, par)
  BY <1>2, Known DEF Lesc, ToCentral
<1>4. h.v # CheckValue(s, "initiator")
  BY <1>3 DEF CheckOK, CheckValue
<1>5. \/ Refuse(C) /\ UNCHANGED key
      \/ /\ sm[C].state = "dhkey_sent" /\ h.v = CheckValue(sm[C], "responder")
         /\ Handle(C, t, <<x>>) /\ key' = [key EXCEPT ![C] = t.ltk]
  BY <1>4 DEF OnDhkeyCheck, Checked, In, Value
<1>6. CASE Refuse(C) /\ UNCHANGED key
  BY <1>1, <1>2, <1>6, CentralRefuses DEF Only
<1>7. CASE /\ sm[C].state = "dhkey_sent" /\ h.v = CheckValue(sm[C], "responder")
           /\ Handle(C, t, <<x>>) /\ key' = [key EXCEPT ![C] = t.ltk]
  <2>1. /\ sm[C].ltk[2] = Pair(sm[C].id) /\ Consented(C, sm[C].id, Shown(sm[C]), consent, par)
    BY <1>7, Known DEF Lesc, CentralOK
  <2>2. h.v[2] = sm[C].ltk /\ h.v[4] = Shown(sm[C])
    BY <1>7 DEF CheckValue, Shown
  <2>3. PICK i \in 1..requests : h.v[2][2] = Pair(i) /\ Consented(P, i, h.v[4], consent, par)
    BY <1>3 DEF CheckOK
  <2>4. i = sm[C].id
    BY <2>1, <2>2, <2>3, PairsDiffer
  <2>5. BothDid(sm[C].id, consent, par)
    BY <2>1, <2>2, <2>3, <2>4 DEF Consented, BothDid
  <2>6. /\ key[P] = sm[C].ltk /\ NoneIn(net[P], Dh)
        /\ sm[P].id = sm[C].id => sm[P].state \in Late /\ sm[P].ltk = sm[C].ltk
    <3>1. sm[C].id # 0
      BY <1>7, Known DEF Lesc, CentralOK
    <3> QED
      BY <1>2, <1>7, <2>1, <2>2, <3>1, Known DEF Lesc, Checks
  <2>7. DOMAIN sm[C] = Fields
    BY Known, TwoPeers
  <2>8. /\ t.state = "dhkey_recvd" /\ t.id = sm[C].id /\ t.ipar = sm[C].ipar /\ t.rpar = sm[C].rpar
        /\ t.method = sm[C].method /\ t.own = sm[C].own /\ t.peer = sm[C].peer
        /\ t.rconf = sm[C].rconf /\ t.passkey = sm[C].passkey
        /\ t.ltk = sm[C].ltk /\ t.irk = sm[C].irk /\ t.csrk = sm[C].csrk /\ t.got = sm[C].got
    BY <2>7 DEF Fields
  <2>9. x.t \in EncReq
    BY DEF Notice, Pdu, EncReq
  <2>10. key'[C] = sm[C].ltk /\ key'[P] = key[P] /\ DOMAIN key' = Peers
    BY <1>7, <2>8, TwoPeers DEF Good, LescInv
  <2> HIDE DEF h, s, t, x
  <2>11. /\ sm'[C] = t /\ sm'[P] = sm[P] /\ Shrinks(net[C], h, net'[C]) /\ Grows(net[P], x, net'[P])
    BY <1>1, <1>7, CentralSends DEF h
  <2>12. Lesc(sm[C], sm[P], net'[C], net[P], key, session, requests, consent, bonds, par)
    BY <1>2, <2>11, Known, TakenByCentral
  <2>13. Lesc(t, sm[P], net'[C], net'[P], key', session, requests, consent, bonds, par)
    BY <1>7, <2>5, <2>6, <2>8, <2>9, <2>10, <2>11, <2>12, CentralEncrypts
  <2> QED
    BY <1>1, <2>10, <2>11, <2>13 DEF LescInv, Good, par
<1> QED
  BY <1>5, <1>6, <1>7

\* A confirmation in the middle of a round, at the central: it takes the
\* place of the responder.
LEMMA OnConfirmOfInitiatorAtCentral ==
  ASSUME Good, OnConfirmOfInitiator(C)
  PROVE  LescInv'
<1>1. /\ net[C] # <<>> /\ Head(net[C]).t = "confirm"
      /\ sm[C].state \in {"pubkey_recvd_stage", "random_sent_stage"}
      /\ UNCHANGED <<scenario, key, session, bonds, requests>>
  BY DEF OnConfirmOfInitiator, In, Received, link
<1>2. sm[C].state = "random_sent_stage" /\ sm[C].state \in Mid /\ sm[C].state # "pubkey_sent"
  BY <1>1, Known DEF Lesc, CentralOK, Mid, Over
<1>3. /\ sm[C].own = <<C, sm[C].id>> /\ Keyless(sm[C]) /\ DOMAIN sm[C] = Fields
      /\ \E i \in 1..requests : sm[C].peer = <<P, i>>
  BY <1>2, CentralHolds
<1>4. sm[C].method.kind = "passkey" /\ Consented(C, sm[C].id, sm[C].passkey, consent, par)
      /\ sm[C].method = Chosen(par)
  BY <1>2, Known, CentralHolds DEF Lesc, CentralOK
<1>5. PICK k \in IF sm[C].round = 1 THEN Passkeys ELSE {sm[C].passkey} :
        LET s == [sm[C] EXCEPT !.passkey = k, !.iconf = Value(C), !.rrand = Rand(C, sm[C]),
                               !.state = "confirm_sent_stage"]
            g == Confirm(s.own, s.peer, s.rrand, PasskeyBit(s)) IN
        /\ Handle(C, [s EXCEPT !.rconf = g], <<Pdu("confirm", g)>>)
        /\ Typed(C, s.method, s.id, k)
  BY DEF OnConfirmOfInitiator
<1> DEFINE s == [sm[C] EXCEPT !.passkey = k, !.iconf = Value(C), !.rrand = Rand(C, sm[C]),
                              !.state = "confirm_sent_stage"]
           g == Confirm(s.own, s.peer, s.rrand, PasskeyBit(s))
           w == [s EXCEPT !.rconf = g]
           x == Pdu("confirm", g)
<1>6. Handle(C, w, <<x>>) /\ Typed(C, s.method, s.id, k)
  BY <1>5
<1>7. /\ w.state = "confirm_sent_stage" /\ w.id = sm[C].id /\ w.ipar = sm[C].ipar /\ w.rpar = sm[C].rpar
      /\ w.method = sm[C].method /\ w.own = sm[C].own /\ Keyless(w) /\ w.peer = sm[C].peer
      /\ w.passkey = k /\ w.rconf = g /\ s.own = sm[C].own /\ s.method = sm[C].method /\ s.id = sm[C].id
  BY <1>3 DEF Keyless, Fields
<1>8. w.rconf[2] = <<C, sm[C].id>>
  BY <1>3, <1>7 DEF Confirm
<1>9. x.t \in Cfm /\ "confirm" \notin EncRsp
  BY DEF Pdu, Cfm, EncRsp
<1> HIDE DEF s, g, w, x
<1>10. consent' = consent \cup {<<C, sm[C].id, k>>}
  BY <1>4, <1>6, <1>7 DEF Typed
<1>11. k \in Pins
  BY <1>4, KnownMethod DEF Consented, Pins
<1>12. Consented(C, sm[C].id, k, consent', par)
  BY <1>10, <1>11 DEF Consented
<1>13. /\ sm'[C] = w /\ sm'[P] = sm[P] /\ Shrinks(net[C], Head(net[C]), net'[C])
       /\ Grows(net[P], x, net'[P])
  BY <1>1, <1>6, CentralSends
<1>14. Lesc(sm[C], sm[P], net[C], net[P], key, session, requests, consent', bonds, par)
  BY <1>10, Known, MoreConsent
<1>15. Lesc(sm[C], sm[P], net'[C], net[P], key, session, requests, consent', bonds, par)
  BY <1>1, <1>9, <1>13, <1>14, TakenByCentral
<1>16. Lesc(w, sm[P], net'[C], net'[P], key, session, requests, consent', bonds, par)
  BY <1>2, <1>3, <1>4, <1>7, <1>8, <1>9, <1>12, <1>13, <1>15, CentralCommits
<1> QED
  BY <1>1, <1>13, <1>16 DEF LescInv, Good, par

LEMMA OnRandomOfRoundAtResponderAtCentral ==
  ASSUME Good, OnRandomOfRoundAtResponder(C)
  PROVE  LescInv'
<1> DEFINE s == [sm[C] EXCEPT !.irand = Value(C)]
           valid == Confirm(s.peer, s.own, s.irand, PasskeyBit(s)) = s.iconf
           w == IF s.round = Rounds THEN [s EXCEPT !.state = "random_sent"]
                ELSE [s EXCEPT !.state = "random_sent_stage", !.round = @ + 1]
           x == Pdu("random", s.rrand)
<1>1. /\ net[C] # <<>> /\ Head(net[C]).t = "random" /\ sm[C].state = "confirm_sent_stage" /\ Only
      /\ (valid /\ Handle(C, w, <<x>>)) \/ Refuse(C)
  BY DEF OnRandomOfRoundAtResponder, In, Received, Only_sm_net, Only, link, ghosts
<1>2. "random" \notin EncRsp /\ x.t = "random"
  BY DEF EncRsp, Pdu
<1>3. CASE Refuse(C)
  BY <1>1, <1>2, <1>3, CentralRefuses
<1>4. CASE valid /\ Handle(C, w, <<x>>)
  <2>1. sm[C].state \in Mid /\ sm[C].state # "pubkey_sent"
    BY <1>1 DEF Mid
  <2>2. /\ sm[C].own = <<C, sm[C].id>> /\ Keyless(sm[C]) /\ DOMAIN sm[C] = Fields
        /\ \E i \in 1..requests : sm[C].peer = <<P, i>>
    BY <2>1, CentralHolds
  <2>3. /\ w.state \in {"random_sent", "random_sent_stage"}
        /\ w.id = sm[C].id /\ w.ipar = sm[C].ipar /\ w.rpar = sm[C].rpar
        /\ w.method = sm[C].method /\ w.own = sm[C].own /\ w.peer = sm[C].peer /\ Keyless(w)
        /\ w.passkey = sm[C].passkey /\ w.rconf = sm[C].rconf
        /\ s.peer = sm[C].peer /\ s.iconf = sm[C].iconf
    BY <2>2 DEF Keyless, Fields
  <2>4. sm[C].iconf[2] = sm[C].peer
    BY <1>4, <2>3 DEF Confirm
  <2>5. sm[C].iconf[2] # <<C, sm[C].id>>
    BY <2>2, <2>4, TwoPeers
  <2>6. /\ sm[C].rconf[2] = <<C, sm[C].id>>
        /\ sm[C].method.kind = "passkey" /\ Consented(C, sm[C].id, sm[C].passkey, consent, par)
    BY <1>1, <2>5, Known DEF Lesc, CentralOK
  <2>7. ~Commits(sm[C].rconf, sm[C].id)
    BY <2>6, TwoPeers DEF Commits
  <2> HIDE DEF s, w, x, valid
  <2>8. /\ sm'[C] = w /\ sm'[P] = sm[P] /\ Shrinks(net[C], Head(net[C]), net'[C])
        /\ Grows(net[P], x, net'[P])
    BY <1>1, <1>4, CentralSends
  <2>9. Lesc(sm[C], sm[P], net'[C], net[P], key, session, requests, consent, bonds, par)
    BY <1>1, <1>2, <2>8, Known, TakenByCentral
  <2>10. Lesc(w, sm[P], net'[C], net'[P], key, session, requests, consent, bonds, par)
    BY <1>1, <1>2, <2>3, <2>6, <2>7, <2>8, <2>9, CentralReveals
  <2> QED
    BY <1>1, <2>8, <2>10, OnlyLesc
<1> QED
  BY <1>1, <1>3, <1>4

LEMMA OnEncRspLesc ==
  ASSUME Good, NEW q \in Peers, OnEncRsp(q)
  PROVE  LescInv'
<1>1. /\ net[q] # <<>> /\ Head(net[q]).t = "enc_rsp" /\ Handle(q, sm[q], <<>>)
      /\ session' = [session EXCEPT ![q] = key[q]]
      /\ UNCHANGED <<scenario, key, bonds, requests, consent>>
  BY DEF OnEncRsp, SetEncryption, Received, ghosts
<1>2. q = C
  BY <1>1, FirstPdu, Directions, TwoPeers
<1>3. /\ sm'[C] = sm[C] /\ sm'[P] = sm[P] /\ Shrinks(net[C], Head(net[C]), net'[C])
      /\ net'[P] = net[P]
  BY <1>1, <1>2, CentralHandles, Known, SendsNothing
<1>4. session'[C] = key[C] /\ session'[P] = session[P] /\ DOMAIN session' = Peers
  BY <1>1, <1>2, TwoPeers DEF Good, LescInv
<1>5. Head(net[C]).t \in EncRsp
  BY <1>1, <1>2 DEF EncRsp
<1>6. Lesc(sm[C], sm[P], net'[C], net[P], key, session', requests, consent, bonds, par)
  BY <1>3, <1>4, <1>5, Known, CentralSessionSet
<1> QED
  BY <1>1, <1>3, <1>4, <1>6 DEF LescInv, Good, par

\* While a PDU of an encrypted link is on its way to the central, the two
\* sessions are the same.
LEMMA EncryptedAtCentral ==
  ASSUME Good, net[C] # <<>>, NEW r, Shrinks(net[C], Head(net[C]), r),
         Head(net[C]).t \in Enc \cup StartReq
  PROVE  Encrypted(r, net[P], session)
<1> DEFINE h == Head(net[C])
<1>1. h \in Elems(net[C]) /\ h.t \notin EncRsp
  BY DEF Shrinks, Enc, StartReq, EncRsp, StartRsp, Keys
<1>2. ~NoneIn(net[C], EncRsp \cup StartReq \cup Enc) /\ ~NoneIn(net[C], Enc \cup StartReq)
  BY <1>1 DEF NoneIn
<1>3. NoneIn(net[P], EncReq)
  BY <1>2, Known DEF Lesc, Encryption
<1>4. NoneIn(net[C], EncRsp)
  <2>1. CASE h.t \in Enc
    BY <1>1, <2>1, Known DEF Lesc, Encryption, NoneIn
  <2>2. CASE h.t \in StartReq
    <3>1. Never(net[C], StartReq, EncRsp)
      BY Known DEF Lesc, Encryption
    <3> QED
      BY <1>1, <2>2, <3>1 DEF Shrinks
  <2> QED
    BY <2>1, <2>2
<1>5. ~NoneIn(net[C], Enc) \/ ~NoneIn(net[C], StartReq)
  BY <1>1 DEF NoneIn
<1>6. session[C] # None /\ session[C] = session[P]
  BY <1>4, <1>5, Known DEF Lesc, Encryption
<1>7. NoneIn(r, EncRsp)
  BY <1>4 DEF Shrinks
<1> QED
  BY <1>3, <1>6, <1>7 DEF Encrypted

LEMMA OnStartEncReqLesc ==
  ASSUME Good, NEW q \in Peers, OnStartEncReq(q)
  PROVE  LescInv'
<1> DEFINE x == Notice("start_enc_rsp")
<1>1. /\ net[q] # <<>> /\ Head(net[q]).t = "start_enc_req" /\ Only
      /\ Handle(q, sm[q], <<x>>)
  BY DEF OnStartEncReq, Received, Only_sm_net, Only, link, ghosts
<1>2. q = C
  BY <1>1, FirstPdu, Directions, TwoPeers
<1>3. x.t \in StartRsp
  BY DEF Notice, Pdu, StartRsp
<1> HIDE DEF x
<1>4. /\ sm'[C] = sm[C] /\ sm'[P] = sm[P] /\ Shrinks(net[C], Head(net[C]), net'[C])
      /\ Grows(net[P], x, net'[P])
  BY <1>1, <1>2, CentralSends
<1>5. Head(net[C]) \in Elems(net[C]) /\ Head(net[C]).t \in StartReq /\ Head(net[C]).t \notin EncRsp
      /\ Head(net[C]).t \in Started
  BY <1>1, <1>2, <1>4 DEF Shrinks, StartReq, EncRsp, Started
<1>6. sm[C].state \notin Mid
  BY <1>5, Known DEF Lesc, Old, NothingOld, NoneIn
<1>7. Encrypted(net'[C], net[P], session)
  BY <1>1, <1>2, <1>4, <1>5, EncryptedAtCentral
<1>8. Lesc(sm[C], sm[P], net'[C], net[P], key, session, requests, consent, bonds, par)
  BY <1>4, <1>5, Known, TakenByCentral
<1>9. Lesc(sm[C], sm[P], net'[C], net'[P], key, session, requests, consent, bonds, par)
  BY <1>3, <1>4, <1>6, <1>7, <1>8, CentralStarts
<1> QED
  BY <1>1, <1>4, <1>9, OnlyLesc

LEMMA OnStartEncRspAtCentral ==
  ASSUME Good, OnStartEncRsp(C)
  PROVE  LescInv'
<1> DEFINE x == Notice("start_enc_rsp")
<1>1. /\ net[C] # <<>> /\ Head(net[C]).t = "start_enc_rsp"
      /\ UNCHANGED <<scenario, key, session, requests, consent>>
  BY DEF OnStartEncRsp, Received, link, ghosts
<1>2. Head(net[C]) \in Elems(net[C]) /\ Head(net[C]).t \in StartRsp /\ Head(net[C]).t \notin EncRsp
      /\ Head(net[C]).t \in Enc
  BY <1>1, FirstPdu, TwoPeers DEF StartRsp, EncRsp, Enc
<1>3. ~MayDistribute(sm[C])
  <2>1. sm[C].state # "dhkey_sent"
    <3>1. SUFFICES ASSUME sm[C].state = "dhkey_sent" PROVE FALSE
      OBVIOUS
    <3>2. Linked(sm[C]) /\ sm[C].state \in Mid
      BY <3>1, Known DEF Lesc, CentralOK, Linked, Mid
    <3> QED
      BY <1>2, <3>2, Known DEF Lesc, Old, NothingOld, NoneIn
  <2>2. sm[C].state \notin {"legacy_random_sent", "legacy_random_recvd"}
    BY Known DEF Lesc, CentralOK, Mid, Over
  <2> QED
    BY <2>1, <2>2 DEF MayDistribute
<1>4. Handle(C, sm[C], IF sm[C].initiator THEN <<>> ELSE <<x>>) /\ Only
  BY <1>1, <1>3 DEF OnStartEncRsp, Only
<1>5. x.t \in StartRsp
  BY DEF Notice, Pdu, StartRsp
<1> HIDE DEF x
<1>6. CASE sm[C].initiator
  <2>1. /\ sm'[C] = sm[C] /\ sm'[P] = sm[P] /\ Shrinks(net[C], Head(net[C]), net'[C])
        /\ net'[P] = net[P]
    BY <1>1, <1>4, <1>6, CentralHandles, Known, SendsNothing
  <2>2. Lesc(sm[C], sm[P], net'[C], net[P], key, session, requests, consent, bonds, par)
    BY <1>2, <2>1, Known, TakenByCentral
  <2> QED
    BY <1>4, <2>1, <2>2, OnlyLesc
<1>7. CASE ~sm[C].initiator
  <2>1. /\ sm'[C] = sm[C] /\ sm'[P] = sm[P] /\ Shrinks(net[C], Head(net[C]), net'[C])
        /\ Grows(net[P], x, net'[P])
    BY <1>1, <1>4, <1>7, CentralSends
  <2>2. sm[C].state \notin Mid
    BY <1>7, Known DEF Mid
  <2>3. Encrypted(net'[C], net[P], session)
    BY <1>1, <1>2, <2>1, EncryptedAtCentral
  <2>4. Lesc(sm[C], sm[P], net'[C], net[P], key, session, requests, consent, bonds, par)
    BY <1>2, <2>1, Known, TakenByCentral
  <2>5. Lesc(sm[C], sm[P], net'[C], net'[P], key, session, requests, consent, bonds, par)
    BY <1>5, <2>1, <2>2, <2>3, <2>4, CentralStarts
  <2> QED
    BY <1>4, <2>1, <2>5, OnlyLesc
<1> QED
  BY <1>6, <1>7

-----------------------------------------------------------------------------
(* LE Secure Connections: the keys distributed                             *)

\* The keys a side generates, and the PDUs that carry them.
LEMMA OwnKeysKnown ==
  ASSUME NEW q, NEW s, DOMAIN s = Fields, s.ltk # None, OwnKeys(s) = par[q].keys,
         s.irk \in {None, OwnIrk(q, s.id, par)}, s.csrk \in {None, OwnCsrk(q, s.id, par)},
         NEW t, t = WithOwnKeys(q, s)
  PROVE  /\ DOMAIN t = Fields
         /\ t.state = s.state /\ t.id = s.id /\ t.ipar = s.ipar /\ t.rpar = s.rpar
         /\ t.method = s.method /\ t.own = s.own /\ t.peer = s.peer /\ t.rconf = s.rconf
         /\ t.passkey = s.passkey /\ t.ltk = s.ltk /\ t.got = s.got
         /\ t.irk = OwnIrk(q, s.id, par) /\ t.csrk = OwnCsrk(q, s.id, par)
  BY DEF WithOwnKeys, Fields, OwnIrk, OwnCsrk

LEMMA ElementsOfBoth ==
  ASSUME NEW s, NEW t, IsQueue(s), IsQueue(t)
  PROVE  IsQueue(s \o t) /\ \A x \in Elems(s \o t) : x \in Elems(s) \/ x \in Elems(t)
  BY ExtendsOf DEF Extends

LEMMA FewElements ==
  /\ IsQueue(<<>>) /\ Elems(<<>>) = {}
  /\ \A x : IsQueue(<<x>>) /\ Elems(<<x>>) = {x}
  /\ \A x, y : IsQueue(<<x, y>>) /\ Elems(<<x, y>>) = {x, y}
<1>1. <<>> \in Seq({}) /\ Len(<<>>) = 0
  BY EmptySeq
<1>2. ASSUME NEW x PROVE IsQueue(<<x>>) /\ Elems(<<x>>) = {x}
  <2>1. <<x>> \in Seq({x}) /\ Len(<<x>>) = 1 /\ <<x>>[1] = x
    OBVIOUS
  <2>2. \A i : i \in 1..1 <=> i = 1
    OBVIOUS
  <2> QED
    BY <2>1, <2>2 DEF IsQueue, Elems
<1>3. ASSUME NEW x, NEW y PROVE IsQueue(<<x, y>>) /\ Elems(<<x, y>>) = {x, y}
  <2>1. <<x, y>> \in Seq({x, y}) /\ Len(<<x, y>>) = 2 /\ <<x, y>>[1] = x /\ <<x, y>>[2] = y
    OBVIOUS
  <2>2. \A i : i \in 1..2 <=> i = 1 \/ i = 2
    OBVIOUS
  <2> QED
    BY <2>1, <2>2 DEF IsQueue, Elems
<1> QED
  BY <1>1, <1>2, <1>3 DEF IsQueue, Elems

LEMMA KeyPdusOnly ==
  ASSUME NEW q, NEW s, DOMAIN s = Fields, s.ltk # None, OwnKeys(s) = par[q].keys
  PROVE  IsQueue(KeyPdus(q, s)) /\ KeysOnly(Elems(KeyPdus(q, s)), q, s.id, par)
<1> DEFINE t == WithOwnKeys(q, s)
           B == IF "id" \in OwnKeys(s)
                THEN <<Pdu("identity_information", t.irk), Notice("identity_address")>> ELSE <<>>
           D == IF "sign" \in OwnKeys(s) THEN <<Pdu("signing_information", t.csrk)>> ELSE <<>>
<1>1. KeyPdus(q, s) = <<>> \o B \o D
  BY DEF KeyPdus
<1>2. /\ "id" \in OwnKeys(s) => t.irk = OwnIrk(q, s.id, par)
      /\ "sign" \in OwnKeys(s) => t.csrk = OwnCsrk(q, s.id, par)
  BY DEF WithOwnKeys, Fields, OwnIrk, OwnCsrk
<1>3. IsQueue(B) /\ KeysOnly(Elems(B), q, s.id, par)
  <2>1. CASE "id" \in OwnKeys(s)
    <3> DEFINE x == Pdu("identity_information", t.irk)
               y == Notice("identity_address")
    <3>1. /\ x.t = "identity_information" /\ x.v = OwnIrk(q, s.id, par)
          /\ y.t = "identity_address"
      BY <1>2, <2>1 DEF Notice, Pdu
    <3> HIDE DEF x, y
    <3>2. KeysOnly({x, y}, q, s.id, par)
      BY <3>1 DEF KeysOnly, Keys, KeyPdu
    <3>3. B = <<x, y>>
      BY <2>1 DEF x, y
    <3> HIDE DEF B
    <3> QED
      BY <3>2, <3>3, FewElements
  <2>2. CASE "id" \notin OwnKeys(s)
    BY <2>2, FewElements DEF KeysOnly
  <2> QED
    BY <2>1, <2>2
<1>4. IsQueue(D) /\ KeysOnly(Elems(D), q, s.id, par)
  <2>1. CASE "sign" \in OwnKeys(s)
    <3> DEFINE x == Pdu("signing_information", t.csrk)
    <3>1. x.t = "signing_information" /\ x.v = OwnCsrk(q, s.id, par)
      BY <1>2, <2>1 DEF Pdu
    <3> HIDE DEF x
    <3>2. KeysOnly({x}, q, s.id, par)
      BY <3>1 DEF KeysOnly, Keys, KeyPdu
    <3>3. D = <<x>>
      BY <2>1 DEF x
    <3> HIDE DEF D
    <3> QED
      BY <3>2, <3>3, FewElements
  <2>2. CASE "sign" \notin OwnKeys(s)
    BY <2>2, FewElements DEF KeysOnly
  <2> QED
    BY <2>1, <2>2
<1> HIDE DEF B, D
<1>5. IsQueue(<<>> \o B) /\ KeysOnly(Elems(<<>> \o B), q, s.id, par)
  BY <1>3, FewElements, ElementsOfBoth DEF KeysOnly
<1> DEFINE E == <<>> \o B
<1> HIDE DEF E
<1>6. IsQueue(E) /\ KeysOnly(Elems(E), q, s.id, par)
  BY <1>5 DEF E
<1>7. IsQueue(E \o D) /\ KeysOnly(Elems(E \o D), q, s.id, par)
  BY <1>4, <1>6, ElementsOfBoth DEF KeysOnly
<1> QED
  BY <1>1, <1>7 DEF E

\* A side in state s that has taken a key: OnKey's s.
Taking(s, t, v) ==
  [s EXCEPT !.got =
     CASE t = "encryption_information" -> [@ EXCEPT !.ltk = v]
       [] t = "master_identification"  -> [@ EXCEPT !.ediv = TRUE]
       [] t = "identity_information"   -> [@ EXCEPT !.irk = v]
       [] t = "identity_address"       -> [@ EXCEPT !.address = TRUE]
       [] t = "signing_information"    -> [@ EXCEPT !.csrk = v]]

LEMMA KeyNoted ==
  ASSUME NEW s, DOMAIN s = Fields, DOMAIN s.got = {"ltk", "ediv", "irk", "address", "csrk"},
         NEW t \in Keys, NEW v
  PROVE  LET w == Taking(s, t, v) IN
         /\ DOMAIN w = Fields /\ w.initiator = s.initiator
         /\ w.state = s.state /\ w.id = s.id /\ w.ipar = s.ipar /\ w.rpar = s.rpar
         /\ w.method = s.method /\ w.own = s.own /\ w.peer = s.peer /\ w.rconf = s.rconf
         /\ w.passkey = s.passkey /\ w.ltk = s.ltk /\ w.irk = s.irk /\ w.csrk = s.csrk
         /\ w.got.ltk = s.got.ltk
         /\ w.got.irk = IF t = "identity_information" THEN v ELSE s.got.irk
         /\ w.got.csrk = IF t = "signing_information" THEN v ELSE s.got.csrk
<1>1. t \in {"identity_information", "identity_address", "signing_information"}
  BY DEF Keys
<1>2. CASE t = "identity_information"
  BY <1>2 DEF Fields, Taking
<1>3. CASE t = "identity_address"
  BY <1>3 DEF Fields, Taking
<1>4. CASE t = "signing_information"
  BY <1>4 DEF Fields, Taking
<1> QED
  BY <1>1, <1>2, <1>3, <1>4

LEMMA OnKeyAtCentral ==
  ASSUME Good, OnKey(C)
  PROVE  LescInv'
<1> DEFINE h == Head(net[C])
<1>1. PICK t \in KeyTypes :
        LET s == Taking(sm[C], t, Value(C)) IN
        /\ Received(C, t) /\ PeerOf(s) # NoParameters
        /\ \/ Complete(s) /\ s.initiator  /\ Distribute(C, s, <<>>)
           \/ Complete(s) /\ ~s.initiator /\ Done(C, s, <<>>)
           \/ ~Complete(s) /\ Handle(C, s, <<>>) /\ UNCHANGED bonds
        /\ UNCHANGED <<scenario, link, threads, ghosts>>
  BY DEF OnKey, Taking
<1> DEFINE s == Taking(sm[C], t, Value(C))
<1>2. /\ net[C] # <<>> /\ h.t = t /\ PeerOf(s) # NoParameters
      /\ UNCHANGED <<scenario, key, session, requests, consent>>
      /\ \/ s.initiator  /\ Distribute(C, s, <<>>)
         \/ ~s.initiator /\ Done(C, s, <<>>)
         \/ Handle(C, s, <<>>) /\ UNCHANGED bonds
  BY <1>1 DEF Received, link, ghosts
<1>3. t \in Keys
  BY <1>1, <1>2, FirstPdu, Directions, TwoPeers DEF KeyTypes, Keys
<1>4. /\ DOMAIN sm[C] = Fields /\ DOMAIN sm[C].got = {"ltk", "ediv", "irk", "address", "csrk"}
      /\ Value(C) = h.v
  BY Known, TwoPeers DEF Value
<1>5. /\ DOMAIN s = Fields /\ s.initiator = sm[C].initiator
      /\ s.state = sm[C].state /\ s.id = sm[C].id /\ s.ipar = sm[C].ipar /\ s.rpar = sm[C].rpar
      /\ s.method = sm[C].method /\ s.own = sm[C].own /\ s.peer = sm[C].peer
      /\ s.rconf = sm[C].rconf /\ s.passkey = sm[C].passkey
      /\ s.ltk = sm[C].ltk /\ s.irk = sm[C].irk /\ s.csrk = sm[C].csrk
      /\ s.got.ltk = sm[C].got.ltk
      /\ s.got.irk = IF t = "identity_information" THEN h.v ELSE sm[C].got.irk
      /\ s.got.csrk = IF t = "signing_information" THEN h.v ELSE sm[C].got.csrk
  BY <1>3, <1>4, KeyNoted
<1> HIDE DEF s, h
<1>6. h \in Elems(net[C]) /\ h.t \in Started /\ h.t \in Enc /\ h.t \notin EncRsp
  BY <1>2, <1>3, FirstPdu, TwoPeers DEF h, Started, Enc, EncRsp, Keys
<1>7. sm[C].state \in Over
  <2>1. sm[C].state # "idle"
    BY <1>2, <1>5, Known, TwoPeers DEF PeerOf
  <2>2. sm[C].state # "pairing_rsp"
    BY <1>2, <1>5, <2>1, Known DEF PeerOf, Lesc, CentralOK
  <2>3. sm[C].state \notin Mid
    BY <1>6, Known DEF Lesc, Old, NothingOld, NoneIn
  <2> QED
    BY <2>1, <2>2, <2>3, Known DEF Lesc, CentralOK
<1>8. KeyPdu(h, P, sm[C].id, par) /\ (sm[P].id = sm[C].id => Generated(sm[P], par))
  BY <1>2, <1>3, <1>6, <1>7, Known DEF Lesc, Distribution
<1>9. KeysKnown(sm[C], C, P, par) /\ sm[C].ltk # None /\ sm[C].ipar = par[C]
  BY <1>7, Known DEF Lesc, CentralOK, Over
<1>10. KeysKnown(s, C, P, par)
  BY <1>2, <1>5, <1>8, <1>9 DEF KeysKnown, KeyPdu
<1>11. s.initiator
  BY <1>5, <1>7, Known DEF Over
<1>12. ASSUME NEW r, Shrinks(net[C], h, r)
       PROVE  /\ Encrypted(r, net[P], session)
              /\ Lesc(s, sm[P], r, net[P], key, session, requests, consent, bonds, par)
  <2>1. Encrypted(r, net[P], session)
    BY <1>2, <1>6, <1>12, EncryptedAtCentral DEF h
  <2>2. Lesc(sm[C], sm[P], r, net[P], key, session, requests, consent, bonds, par)
    BY <1>6, <1>12, Known, TakenByCentral
  <2>3. Lesc(s, sm[P], r, net[P], key, session, requests, consent, bonds, par)
    BY <1>5, <1>7, <1>10, <2>2, CentralTakesKey
  <2> QED
    BY <2>1, <2>3
<1>13. CASE Handle(C, s, <<>>) /\ UNCHANGED bonds
  <2>1. /\ sm'[C] = s /\ sm'[P] = sm[P] /\ Shrinks(net[C], h, net'[C]) /\ net'[P] = net[P]
    BY <1>2, <1>13, CentralHandles, Known, SendsNothing DEF h
  <2> QED
    BY <1>2, <1>12, <1>13, <2>1, OnlyLesc DEF Only
<1>14. CASE Distribute(C, s, <<>>)
  <2> DEFINE w == WithOwnKeys(C, s)
             g == [w EXCEPT !.state = "done"]
             out == KeyPdus(C, s)
             K == Elems(out)
  <2>1. OwnKeys(s) = par[C].keys
    BY <1>5, <1>9, <1>11 DEF OwnKeys
  <2>2. IsQueue(out) /\ KeysOnly(K, C, s.id, par)
    BY <1>5, <1>9, <2>1, KeyPdusOnly
  <2>3. /\ DOMAIN w = Fields /\ w.id = s.id /\ w.ipar = s.ipar /\ w.rpar = s.rpar
        /\ w.method = s.method /\ w.own = s.own /\ w.peer = s.peer /\ w.rconf = s.rconf
        /\ w.passkey = s.passkey /\ w.ltk = s.ltk /\ w.got = s.got
        /\ w.irk = OwnIrk(C, s.id, par) /\ w.csrk = OwnCsrk(C, s.id, par)
    <3>1. s.irk \in {None, OwnIrk(C, s.id, par)} /\ s.csrk \in {None, OwnCsrk(C, s.id, par)}
      BY <1>10 DEF KeysKnown
    <3> HIDE DEF w
    <3>2. s.ltk # None
      BY <1>5, <1>9
    <3> QED
      BY <1>5, <2>1, <3>1, <3>2, OwnKeysKnown DEF w
  <2>4. <<>> \o out = out
    <3>1. PICK S : out \in Seq(S)
      BY <2>2 DEF IsQueue
    <3> QED
      BY <3>1, ConcatEmptySeq
  <2>5. /\ Handle(C, g, out)
        /\ bonds' = bonds \/ bonds' = [bonds EXCEPT ![C] = @ \cup {Bond(w)}]
    BY <1>11, <1>14, <2>4 DEF Distribute, Done
  <2> HIDE DEF w, out
  <2>6. /\ g.state = "done" /\ g.id = s.id /\ g.ipar = s.ipar /\ g.rpar = s.rpar
        /\ g.method = s.method /\ g.own = s.own /\ g.peer = s.peer /\ g.rconf = s.rconf
        /\ g.passkey = s.passkey /\ g.ltk = s.ltk /\ g.got = s.got
        /\ g.irk = OwnIrk(C, g.id, par) /\ g.csrk = OwnCsrk(C, g.id, par)
        /\ Bond(g) = Bond(w)
    BY <2>3 DEF Fields, Bond
  <2> HIDE DEF g
  <2>7. KeysKnown(g, C, P, par)
    BY <1>10, <2>6 DEF KeysKnown
  <2>8. /\ sm'[C] = g /\ sm'[P] = sm[P] /\ Shrinks(net[C], h, net'[C])
        /\ net'[P] = net[P] \o out
    BY <1>2, <2>5, CentralHandles DEF h
  <2>9. Extends(net[P], K, net'[P])
    BY <2>2, <2>8, Known, ExtendsOf
  <2>10. bonds' = bonds \/ (/\ bonds'[P] = bonds[P]
                            /\ \A f \in bonds'[C] : f \in bonds[C] \/ f = Bond(g))
    BY <2>5, <2>6, Known, TwoPeers
  <2>11. s.state \in Over /\ (sm[P].id = s.id => Generated(sm[P], par))
    BY <1>5, <1>7, <1>8
  <2> HIDE DEF K
  <2>12. Lesc(g, sm[P], net'[C], net'[P], key, session, requests, consent, bonds', par)
    BY <1>12, <2>2, <2>6, <2>7, <2>8, <2>9, <2>10, <2>11, CentralDone
  <2> QED
    BY <1>2, <2>8, <2>12 DEF LescInv, Good, par
<1> QED
  BY <1>2, <1>11, <1>13, <1>14

\* What the central's application does.
LEMMA StartAtCentral ==
  ASSUME Good, Start(C)
  PROVE  LescInv'
<1>1. /\ sm' = [sm EXCEPT ![C] = Initiate(C)] /\ requests' = requests + 1
      /\ net' = [net EXCEPT ![P] = Append(@, PairingRequest)]
      /\ UNCHANGED <<scenario, key, session, bonds, consent>>
  BY TwoPeers DEF Start, link, C
<1>2. Append(net[P], PairingRequest) = net[P] \o <<PairingRequest>>
  <2>1. PICK S : net[P] \in Seq(S)
    BY Known DEF IsQueue
  <2>2. net[P] \in Seq(S \cup {PairingRequest})
    BY <2>1
  <2> QED
    BY <2>2, AppendIsConcat
<1>3. /\ sm'[C] = Initiate(C) /\ sm'[P] = sm[P] /\ net'[C] = net[C]
      /\ Grows(net[P], PairingRequest, net'[P])
  BY <1>1, <1>2, Known, TwoPeers, GrowsBy
<1>4. Lesc(Initiate(C), sm[P], net[C], net'[P], key, session, requests + 1, consent, bonds, par)
  BY <1>3, Known, Initiates, CentralAsks
<1> QED
  BY <1>1, <1>3, <1>4 DEF LescInv, Good, par

LEMMA StartAtPeripheral ==
  ASSUME Good, Start(P)
  PROVE  LescInv'
<1> DEFINE x == Notice("security_request")
<1>1. /\ sm' = [sm EXCEPT ![P] = Reset(sm[P])] /\ Only
      /\ net' = [net EXCEPT ![C] = Append(@, x)]
  <2>1. P # "central"
    BY DEF P
  <2> QED
    BY <2>1, TwoPeers DEF Start, link, Only
<1>2. x.t = "security_request"
  BY DEF Notice, Pdu
<1> HIDE DEF x
<1>3. Append(net[C], x) = net[C] \o <<x>>
  <2>1. PICK S : net[C] \in Seq(S)
    BY Known DEF IsQueue
  <2>2. net[C] \in Seq(S \cup {x})
    BY <2>1
  <2> QED
    BY <2>2, AppendIsConcat
<1>4. /\ sm'[P] = Reset(sm[P]) /\ sm'[C] = sm[C] /\ net'[P] = net[P]
      /\ Grows(net[C], x, net'[C])
  BY <1>1, <1>3, Known, TwoPeers, GrowsBy
<1>5. Lesc(sm[C], Reset(sm[P]), net[C], net[P], key, session, requests, consent, bonds, par)
  BY Known, RestedBy, PeripheralRests
<1>6. x.t \notin Pk
  BY <1>2 DEF Pk
<1>7. Lesc(sm[C], Reset(sm[P]), net'[C], net[P], key, session, requests, consent, bonds, par)
  BY <1>2, <1>4, <1>5, <1>6, SentPlainlyToCentral
<1> QED
  BY <1>1, <1>4, <1>7, OnlyLesc

LEMMA ResetDoneLesc ==
  ASSUME Good, NEW q \in Peers, ResetDone(q)
  PROVE  LescInv'
<1>1. sm' = [sm EXCEPT ![q] = Reset(sm[q])] /\ net' = net /\ Only
  BY Known DEF ResetDone, link, ghosts, Only
<1>2. CASE q = C
  <2>1. sm'[C] = Reset(sm[C]) /\ sm'[P] = sm[P]
    BY <1>1, <1>2, Known, TwoPeers
  <2>2. Lesc(Reset(sm[C]), sm[P], net[C], net[P], key, session, requests, consent, bonds, par)
    BY Known, RestedBy, CentralRests
  <2> QED
    BY <1>1, <2>1, <2>2, OnlyLesc
<1>3. CASE q = P
  <2>1. sm'[P] = Reset(sm[P]) /\ sm'[C] = sm[C]
    BY <1>1, <1>3, Known, TwoPeers
  <2>2. Lesc(sm[C], Reset(sm[P]), net[C], net[P], key, session, requests, consent, bonds, par)
    BY Known, RestedBy, PeripheralRests
  <2> QED
    BY <1>1, <2>1, <2>2, OnlyLesc
<1> QED
  BY <1>2, <1>3, TwoPeers

LEMMA StrayPublicKeyLesc ==
  ASSUME Good, NEW q \in Peers, StrayPublicKey(q)
  PROVE  LescInv'
<1>1. /\ net[q] # <<>> /\ Head(net[q]).t = "public_key" /\ sm[q].state # "pairing_req"
      /\ Handle(q, sm[q], <<>>) /\ Only
  BY DEF StrayPublicKey, Received, Only_sm_net, Only, link, ghosts
<1>2. "public_key" \notin EncRsp /\ "public_key" \notin Req /\ "public_key" \notin Turn
  BY DEF EncRsp, Req, Turn
<1>3. CASE q = C
  <2>1. /\ sm'[C] = sm[C] /\ sm'[P] = sm[P] /\ Shrinks(net[C], Head(net[C]), net'[C])
        /\ net'[P] = net[P]
    BY <1>1, <1>3, CentralHandles, Known, SendsNothing
  <2>2. Lesc(sm[C], sm[P], net'[C], net[P], key, session, requests, consent, bonds, par)
    BY <1>1, <1>2, <1>3, <2>1, Known, TakenByCentral
  <2> QED
    BY <1>1, <2>1, <2>2, OnlyLesc
<1>4. CASE q = P
  <2>1. /\ sm'[P] = sm[P] /\ sm'[C] = sm[C] /\ Shrinks(net[P], Head(net[P]), net'[P])
        /\ net'[C] = net[C]
    BY <1>1, <1>4, PeripheralHandles, Known, SendsNothing
  <2>2. Lesc(sm[C], sm[P], net[C], net'[P], key, session, requests, consent, bonds, par)
    BY <1>1, <1>2, <1>4, <2>1, Known, TakenByPeripheral
  <2> QED
    BY <1>1, <2>1, <2>2, OnlyLesc
<1> QED
  BY <1>3, <1>4, TwoPeers

-----------------------------------------------------------------------------
(* LE Secure Connections: handlers of the peripheral                       *)

LEMMA DeclinedLesc ==
  ASSUME Good, NEW q \in Peers, Declined(q)
  PROVE  LescInv'
<1>1. /\ net[q] # <<>> /\ Refuse(q) /\ Only
      /\ Head(net[q]).t \in {"security_request", "pairing_request"}
  BY DEF Declined, Received, Only_sm_net, Only, link, ghosts
<1>2. Head(net[q]).t \notin EncRsp
  BY <1>1 DEF EncRsp
<1> QED
  BY <1>1, <1>2, TwoPeers, CentralRefuses, PeripheralRefuses

LEMMA UnexpectedLesc ==
  ASSUME Good, NEW q \in Peers, Unexpected(q)
  PROVE  LescInv'
<1>1. PICK t \in DOMAIN Expected : Received(q, t)
  BY DEF Unexpected
<1>2. net[q] # <<>> /\ Refuse(q) /\ Only /\ Head(net[q]).t = t
  BY <1>1 DEF Unexpected, Received, Only_sm_net, Only, link, ghosts
<1>3. t \notin EncRsp
  BY <1>1 DEF EncRsp, Expected
<1> QED
  BY <1>2, <1>3, TwoPeers, CentralRefuses, PeripheralRefuses

\* What a peripheral in a pairing holds.
LEMMA PeripheralHolds ==
  ASSUME Good
  PROVE  /\ DOMAIN sm[P] = Fields
         /\ DOMAIN sm[P].got = {"ltk", "ediv", "irk", "address", "csrk"}
         /\ sm[P].id # 0 =>
              /\ sm[P].ipar = par[C] /\ sm[P].rpar = par[P] /\ sm[P].method = Chosen(par)
              /\ sm[P].own = <<P, sm[P].id>> /\ sm[P].id \in 1..requests
         /\ sm[P].state # "idle" => sm[P].id # 0
         /\ sm[P].state \notin {"idle", "pairing_req"} => sm[P].peer = <<C, sm[P].id>>
         /\ sm[P].state \notin Late => Keyless(sm[P])
<1>1. /\ DOMAIN sm[P] = Fields /\ requests \in Nat
      /\ DOMAIN sm[P].got = {"ltk", "ediv", "irk", "address", "csrk"}
  BY Known, TwoPeers
<1>2. PeripheralOK(sm[P], requests, consent, par)
  BY Known DEF Lesc
<1> QED
  BY <1>1, <1>2 DEF PeripheralOK

LEMMA OnPairingRequestLesc ==
  ASSUME Good, NEW q \in Peers, OnPairingRequest(q)
  PROVE  LescInv'
<1> DEFINE h == Head(net[P])
           m == Method(h.v.par, par[P])
           s == [Reset(sm[P]) EXCEPT !.state = "pairing_req", !.id = h.v.id,
                   !.ipar = h.v.par, !.rpar = par[P], !.method = m]
           t == [s EXCEPT !.own = KeyPair(P, s)]
           x == Pdu("pairing_response", par[P])
<1>1. net[q] # <<>> /\ Head(net[q]).t = "pairing_request"
  BY DEF OnPairingRequest, Received
<1>2. q = P
  BY <1>1, FirstPdu, Directions, TwoPeers
<1>3. h \in Elems(net[P]) /\ h.t \in Req
  BY <1>1, <1>2, FirstPdu DEF Req
<1>4. h.v.par = par[C] /\ h.v.id \in 1..requests
  BY <1>3, Known DEF Lesc, ToPeripheral
<1>5. m = Chosen(par) /\ m.lesc
  BY <1>4, KnownMethod DEF Chosen
<1>6. Handle(P, t, <<x>>) /\ Only
  <2> DEFINE v(pin) == CASE m.lesc -> t
                         [] ~m.lesc /\ m.kind = "passkey" -> [s EXCEPT !.tk = pin]
                         [] OTHER -> s
  <2>1. \E pin \in Passkeys :
          /\ Handle(P, v(pin), <<x>>)
          /\ IF m.lesc THEN UNCHANGED consent ELSE Typed(P, m, s.id, pin)
    <3>1. OnPairingRequest(P)
      BY <1>2
    <3> QED
      BY <3>1, Zenon DEF OnPairingRequest, Value
  <2>2. UNCHANGED <<scenario, key, session, bonds, requests>>
    BY DEF OnPairingRequest, link
  <2>3. \A pin : v(pin) = t
    BY <1>5
  <2> HIDE DEF m, s, t, x, v
  <2> QED
    BY <1>5, <2>1, <2>2, <2>3 DEF Only
<1>7. /\ t.state = "pairing_req" /\ t.id = h.v.id /\ t.ipar = par[C] /\ t.rpar = par[P]
      /\ t.method = Chosen(par) /\ t.own = <<P, t.id>> /\ t.peer = None /\ Keyless(t)
  <2> DEFINE r == Reset(sm[P])
  <2>1. DOMAIN r = Fields /\ r.peer = None /\ Keyless(r)
    <3>1. NoKeys.irk = None /\ NoKeys.csrk = None
      BY DEF NoKeys
    <3>2. r.got = NoKeys /\ r.irk = None /\ r.csrk = None /\ r.peer = None
      BY DEF Reset, Fresh
    <3> QED
      BY <3>1, <3>2, ResetFields DEF Keyless
  <2> HIDE DEF r
  <2>2. s = [r EXCEPT !.state = "pairing_req", !.id = h.v.id,
                      !.ipar = h.v.par, !.rpar = par[P], !.method = m]
    BY DEF r
  <2> HIDE DEF s
  <2>3. /\ s.state = "pairing_req" /\ s.id = h.v.id /\ s.ipar = h.v.par /\ s.rpar = par[P]
        /\ s.method = m /\ s.peer = r.peer /\ s.irk = r.irk /\ s.csrk = r.csrk /\ s.got = r.got
        /\ DOMAIN s = Fields
    BY <2>1, <2>2 DEF Fields
  <2> QED
    BY <1>4, <1>5, <2>1, <2>3 DEF Keyless, KeyPair, Fields
<1>8. x.t \in Rsp /\ x.v = par[P]
  BY DEF Pdu, Rsp
<1> HIDE DEF h, m, s, t, x
<1>9. /\ sm'[P] = t /\ sm'[C] = sm[C] /\ Shrinks(net[P], h, net'[P]) /\ Grows(net[C], x, net'[C])
  BY <1>1, <1>2, <1>6, PeripheralSends DEF h
<1>10. Lesc(sm[C], t, net'[C], net'[P], key, session, requests, consent, bonds, par)
  BY <1>3, <1>7, <1>8, <1>9, Known, PeripheralAccepts
<1> QED
  BY <1>6, <1>9, <1>10, OnlyLesc

LEMMA OnPublicKeyOfInitiatorLesc ==
  ASSUME Good, NEW q \in Peers, OnPublicKeyOfInitiator(q)
  PROVE  LescInv'
<1> DEFINE h == Head(net[P])
           s == [sm[P] EXCEPT !.peer = h.v, !.rrand = Rand(P, sm[P])]
           g == Confirm(s.own, s.peer, s.rrand, 0)
           v == [s EXCEPT !.rconf = g, !.state = "confirm_sent"]
           w == [s EXCEPT !.round = 1, !.state = "pubkey_recvd_stage"]
           x == Pdu("public_key", s.own)
           y == Pdu("confirm", g)
<1>1. net[q] # <<>> /\ Head(net[q]).t = "public_key" /\ sm[q].state = "pairing_req" /\ Only
  BY DEF OnPublicKeyOfInitiator, In, Received, Only_sm_net, Only, link, ghosts
<1>2. q = P
  BY <1>1, Known, TwoPeers DEF Lesc, CentralOK, Mid, Over
<1>3. h \in Elems(net[P]) /\ h.t \in Pk /\ h.t \notin Turn /\ h.t \notin Req /\ FirstOf(net[P], Req, h)
  BY <1>1, <1>2, FirstPdu DEF Pk, Turn, Req
<1>4. /\ sm[P].id # 0 /\ sm[P].own = <<P, sm[P].id>> /\ sm[P].id \in 1..requests
      /\ Keyless(sm[P]) /\ DOMAIN sm[P] = Fields
  BY <1>1, <1>2, PeripheralHolds DEF Late
<1>5. h.v = <<C, sm[P].id>>
  <2>1. PICK i \in 1..requests : h.v = <<C, i>>
    BY <1>3, Known DEF Lesc, ToPeripheral
  <2>2. sm[P].id \in {0, h.v[2]}
    BY <1>3, Known DEF Lesc, PublicKeys
  <2> QED
    BY <1>4, <2>1, <2>2
<1>6. /\ s.own = sm[P].own /\ s.peer = h.v /\ s.method = sm[P].method /\ DOMAIN s = Fields
      /\ s.id = sm[P].id /\ s.ipar = sm[P].ipar /\ s.rpar = sm[P].rpar
      /\ s.irk = sm[P].irk /\ s.csrk = sm[P].csrk /\ s.got = sm[P].got
  BY <1>4 DEF Fields
<1>7. \/ sm[P].method.kind # "passkey" /\ Handle(P, v, <<x, y>>)
      \/ sm[P].method.kind = "passkey" /\ Handle(P, w, <<x>>)
  BY <1>2, <1>6 DEF OnPublicKeyOfInitiator, Value
<1> HIDE DEF s
<1>8. /\ x.t \in Pk /\ x.v = <<P, sm[P].id>> /\ y.t \in Cfm /\ Commits(y.v, sm[P].id)
      /\ g[2] = <<P, sm[P].id>>
  BY <1>4, <1>5, <1>6 DEF Pdu, Pk, Cfm, Commits, Confirm
<1>9. /\ v.state = "confirm_sent" /\ v.id = sm[P].id /\ v.ipar = sm[P].ipar /\ v.rpar = sm[P].rpar
      /\ v.method = sm[P].method /\ v.own = sm[P].own /\ v.peer = <<C, sm[P].id>> /\ Keyless(v)
      /\ v.rconf[2] = <<P, sm[P].id>>
  BY <1>4, <1>5, <1>6, <1>8 DEF Keyless, Fields
<1>10. /\ w.state = "pubkey_recvd_stage" /\ w.id = sm[P].id /\ w.ipar = sm[P].ipar
       /\ w.rpar = sm[P].rpar /\ w.method = sm[P].method /\ w.own = sm[P].own
       /\ w.peer = <<C, sm[P].id>> /\ Keyless(w) /\ w.round = 1
  BY <1>4, <1>5, <1>6 DEF Keyless, Fields
<1> HIDE DEF h, g, v, w, x, y
<1>11. ASSUME NEW t, t = v \/ t = w,
              t = v => sm[P].method.kind # "passkey", t = w => sm[P].method.kind = "passkey",
              Shrinks(net[P], h, net'[P])
       PROVE  /\ Lesc(sm[C], t, net[C], net'[P], key, session, requests, consent, bonds, par)
              /\ t.peer # None /\ t.id = sm[P].id
  <2>1. /\ t.state \in {"confirm_sent", "pubkey_recvd_stage"} /\ t.id = sm[P].id
        /\ t.ipar = sm[P].ipar /\ t.rpar = sm[P].rpar /\ t.method = sm[P].method
        /\ t.own = sm[P].own /\ t.peer = <<C, sm[P].id>> /\ Keyless(t)
        /\ t.state = "confirm_sent" => t.rconf[2] = <<P, sm[P].id>> /\ t.method.kind # "passkey"
        /\ t.state = "pubkey_recvd_stage" => t.round = 1 /\ t.method.kind = "passkey"
    BY <1>9, <1>10, <1>11
  <2>2. Lesc(sm[C], t, net[C], net[P], key, session, requests, consent, bonds, par)
    <3>1. sm[P].state = "pairing_req"
      BY <1>1, <1>2
    <3>2. Shrinks(net[P], h, net'[P])
      BY <1>11
    <3>3. Lesc(sm[C], sm[P], net[C], net[P], key, session, requests, consent, bonds, par)
      BY Known
    <3> QED
      BY <1>3, <1>5, <2>1, <3>1, <3>2, <3>3, PeripheralKeepsKey
  <2>3. t.state # "pairing_req"
    BY <2>1
  <2>4. Lesc(sm[C], t, net[C], net'[P], key, session, requests, consent, bonds, par)
    BY <1>3, <1>11, <2>2, <2>3, TakenByPeripheral
  <2>5. <<C, sm[P].id>> # None
    BY DEF None
  <2> QED
    BY <2>1, <2>4, <2>5
<1>12. CASE sm[P].method.kind # "passkey" /\ Handle(P, v, <<x, y>>)
  <2> DEFINE r == net[C] \o <<x>>
  <2>1. /\ sm'[P] = v /\ sm'[C] = sm[C] /\ Shrinks(net[P], h, net'[P])
        /\ net'[C] = net[C] \o <<x, y>>
    BY <1>1, <1>2, <1>12, PeripheralHandles DEF h
  <2>2. Grows(net[C], x, r) /\ Grows(r, y, net'[C])
    BY <2>1, Known, SendsTwo
  <2> HIDE DEF r
  <2>3. Lesc(sm[C], v, net[C], net'[P], key, session, requests, consent, bonds, par)
        /\ v.peer # None /\ v.id = sm[P].id
    <3>1. v # w
      BY <1>9, <1>10
    <3> QED
      BY <1>11, <1>12, <2>1, <3>1
  <2>4. Lesc(sm[C], v, r, net'[P], key, session, requests, consent, bonds, par)
    BY <1>4, <1>8, <2>2, <2>3, SentPlainlyToCentral
  <2>5. Lesc(sm[C], v, net'[C], net'[P], key, session, requests, consent, bonds, par)
    BY <1>8, <2>2, <2>3, <2>4, PeripheralCommits
  <2> QED
    BY <1>1, <2>1, <2>5, OnlyLesc
<1>13. CASE sm[P].method.kind = "passkey" /\ Handle(P, w, <<x>>)
  <2>1. /\ sm'[P] = w /\ sm'[C] = sm[C] /\ Shrinks(net[P], h, net'[P]) /\ Grows(net[C], x, net'[C])
    BY <1>1, <1>2, <1>13, PeripheralSends DEF h
  <2>2. Lesc(sm[C], w, net[C], net'[P], key, session, requests, consent, bonds, par)
    <3>1. v # w
      BY <1>9, <1>10
    <3> QED
      BY <1>11, <1>13, <2>1, <3>1
  <2>3. Lesc(sm[C], w, net'[C], net'[P], key, session, requests, consent, bonds, par)
    BY <1>4, <1>8, <2>1, <2>2, SentPlainlyToCentral
  <2> QED
    BY <1>1, <2>1, <2>3, OnlyLesc
<1> QED
  BY <1>7, <1>12, <1>13

LEMMA OnConfirmOfInitiatorAtPeripheral ==
  ASSUME Good, OnConfirmOfInitiator(P)
  PROVE  LescInv'
<1> DEFINE h == Head(net[P])
<1>1. /\ net[P] # <<>> /\ h.t = "confirm"
      /\ sm[P].state \in {"pubkey_recvd_stage", "random_sent_stage"}
      /\ UNCHANGED <<scenario, key, session, bonds, requests>>
  BY DEF OnConfirmOfInitiator, In, Received, link
<1>2. h \in Elems(net[P]) /\ h.t \in Cfm /\ h.t \notin Turn /\ h.t \notin Req /\ h.t \notin Pk
  BY <1>1, FirstPdu, TwoPeers DEF Cfm, Turn, Req, Pk
<1>3. /\ DOMAIN sm[P] = Fields /\ Keyless(sm[P]) /\ sm[P].own = <<P, sm[P].id>>
      /\ sm[P].peer = <<C, sm[P].id>> /\ sm[P].method = Chosen(par)
  BY <1>1, PeripheralHolds DEF Late
<1>4. /\ sm[P].method.kind = "passkey"
      /\ sm[P].state = "pubkey_recvd_stage" => sm[P].round = 1
      /\ sm[P].state = "random_sent_stage" => Consented(P, sm[P].id, Shown(sm[P]), consent, par)
  <2>1. PeripheralOK(sm[P], requests, consent, par)
    BY Known DEF Lesc
  <2>2. "random_sent_stage" \in Asked
    BY DEF Asked
  <2> QED
    BY <1>1, <2>1, <2>2 DEF PeripheralOK
<1>5. PICK k \in IF sm[P].round = 1 THEN Passkeys ELSE {sm[P].passkey} :
        LET s == [sm[P] EXCEPT !.passkey = k, !.iconf = Value(P), !.rrand = Rand(P, sm[P]),
                               !.state = "confirm_sent_stage"]
            g == Confirm(s.own, s.peer, s.rrand, PasskeyBit(s)) IN
        /\ Handle(P, [s EXCEPT !.rconf = g], <<Pdu("confirm", g)>>)
        /\ Typed(P, s.method, s.id, k)
  BY DEF OnConfirmOfInitiator
<1> DEFINE s == [sm[P] EXCEPT !.passkey = k, !.iconf = Value(P), !.rrand = Rand(P, sm[P]),
                              !.state = "confirm_sent_stage"]
           g == Confirm(s.own, s.peer, s.rrand, PasskeyBit(s))
           w == [s EXCEPT !.rconf = g]
           x == Pdu("confirm", g)
<1>6. Handle(P, w, <<x>>) /\ Typed(P, s.method, s.id, k)
  BY <1>5
<1>7. /\ w.state = "confirm_sent_stage" /\ w.id = sm[P].id /\ w.ipar = sm[P].ipar /\ w.rpar = sm[P].rpar
      /\ w.method = sm[P].method /\ w.own = sm[P].own /\ Keyless(w) /\ w.peer = sm[P].peer
      /\ w.passkey = k /\ w.rconf = g /\ s.own = sm[P].own /\ s.method = sm[P].method
      /\ s.id = sm[P].id /\ s.peer = sm[P].peer
  BY <1>3 DEF Keyless, Fields
<1>8. w.rconf[2] = <<P, sm[P].id>> /\ Commits(g, sm[P].id)
  BY <1>3, <1>7 DEF Confirm, Commits
<1>9. x.t \in Cfm /\ x.v = g
  BY DEF Pdu, Cfm
<1> HIDE DEF s, g, w, x, h
<1>10. consent' = consent \cup {<<P, sm[P].id, k>>}
  BY <1>4, <1>6, <1>7 DEF Typed
<1>11. k \in Pins
  <2>1. CASE sm[P].round = 1
    BY <2>1 DEF Pins
  <2>2. CASE sm[P].round # 1
    <3>1. k = Shown(sm[P])
      BY <1>4, <2>2 DEF Shown
    <3>2. Auth(par)
      BY <1>3, <1>4, KnownMethod
    <3> QED
      BY <1>1, <1>4, <2>2, <3>1, <3>2 DEF Consented
  <2> QED
    BY <2>1, <2>2
<1>12. Consented(P, sm[P].id, k, consent', par)
  BY <1>10, <1>11 DEF Consented
<1>13. /\ sm'[P] = w /\ sm'[C] = sm[C] /\ Shrinks(net[P], h, net'[P])
       /\ Grows(net[C], x, net'[C])
  BY <1>1, <1>6, PeripheralSends DEF h
<1>14. \A y \in Elems(net'[P]) : FirstOf(net'[P], Turn, y) => y.t \notin Cfm
  BY <1>2, <1>13, Known DEF Shrinks, Lesc, RoundsOK
<1>15. sm[C].state \in Turned => ~NoneIn(net'[P], Turn)
  BY <1>2, <1>13, Known DEF Shrinks, Lesc, RoundsOK
<1>16. Lesc(sm[C], sm[P], net[C], net[P], key, session, requests, consent', bonds, par)
  BY <1>10, Known, MoreConsent
<1>17. Lesc(sm[C], sm[P], net[C], net'[P], key, session, requests, consent', bonds, par)
  BY <1>2, <1>13, <1>16, TakenByPeripheral
<1>18. Lesc(sm[C], w, net[C], net'[P], key, session, requests, consent', bonds, par)
  BY <1>1, <1>7, <1>8, <1>12, <1>14, <1>15, <1>17, PeripheralTakesRound
<1>19. w.peer # None
  BY <1>3, <1>7 DEF None
<1>20. Lesc(sm[C], w, net'[C], net'[P], key, session, requests, consent', bonds, par)
  BY <1>7, <1>8, <1>9, <1>13, <1>18, <1>19, PeripheralCommits
<1> QED
  BY <1>1, <1>13, <1>20 DEF LescInv, Good, par

LEMMA OnRandomOfInitiatorLesc ==
  ASSUME Good, NEW q \in Peers, OnRandomOfInitiator(q)
  PROVE  LescInv'
<1> DEFINE h == Head(net[P])
           s == [sm[P] EXCEPT !.irand = Value(P)]
           w == [s EXCEPT !.state = "random_sent"]
           x == Pdu("random", s.rrand)
           y == Notice("failed")
           f == Failed(s)
<1>1. /\ net[q] # <<>> /\ Head(net[q]).t = "random" /\ sm[q].state = "confirm_sent"
      /\ UNCHANGED <<scenario, key, session, bonds, requests>>
  BY DEF OnRandomOfInitiator, In, Received, link
<1>2. q = P
  BY <1>1, Known, TwoPeers DEF Lesc, CentralOK, Mid, Over
<1>3. h.t = "random" /\ h.t \notin Req /\ h.t \notin Pk
  BY <1>1, <1>2 DEF Req, Pk
<1>4. /\ DOMAIN sm[P] = Fields /\ Keyless(sm[P]) /\ sm[P].method = Chosen(par)
  BY <1>1, <1>2, PeripheralHolds DEF Late
<1>5. sm[P].method.kind # "passkey"
  BY <1>1, <1>2, Known DEF Lesc, PeripheralOK
<1>6. /\ w.state = "random_sent" /\ w.id = sm[P].id /\ w.ipar = sm[P].ipar /\ w.rpar = sm[P].rpar
      /\ w.method = sm[P].method /\ w.own = sm[P].own /\ Keyless(w) /\ w.peer = sm[P].peer
      /\ w.rconf = sm[P].rconf /\ w.passkey = sm[P].passkey
      /\ s.method = sm[P].method /\ s.id = sm[P].id
  BY <1>4 DEF Keyless, Fields
<1>7. x.t = "random" /\ x.t \notin Pk /\ y.t = "failed" /\ y.t \notin Pk
  BY DEF Pdu, Notice, Pk
<1>8. Rested(f)
  BY RestedBy
<1>9. PICK yes \in BOOLEAN :
        /\ s.method.kind = "justworks" => yes
        /\ \/ yes  /\ Handle(P, w, <<x>>)
           \/ ~yes /\ Handle(P, f, <<x, y>>)
        /\ Accepts(P, s, yes)
  BY <1>2 DEF OnRandomOfInitiator
<1> HIDE DEF h, s, w, x, y, f
<1>10. /\ consent \subseteq consent'
       /\ yes /\ sm[P].method.kind = "numcomp" => <<P, sm[P].id, 0>> \in consent'
  BY <1>6, <1>9 DEF Accepts
<1>11. Lesc(sm[C], sm[P], net[C], net[P], key, session, requests, consent', bonds, par)
  BY <1>10, Known, MoreConsent
<1>12. CASE yes /\ Handle(P, w, <<x>>)
  <2>1. /\ sm'[P] = w /\ sm'[C] = sm[C] /\ Shrinks(net[P], h, net'[P])
        /\ Grows(net[C], x, net'[C])
    BY <1>1, <1>2, <1>12, PeripheralSends DEF h
  <2>2. Consented(P, sm[P].id, Shown(sm[P]), consent', par)
    BY <1>4, <1>5, <1>10, <1>12, KnownMethod DEF Consented, Shown, Pins
  <2>3. Lesc(sm[C], w, net[C], net[P], key, session, requests, consent', bonds, par)
    BY <1>1, <1>2, <1>6, <1>11, <2>2, PeripheralReveals
  <2>4. Lesc(sm[C], w, net[C], net'[P], key, session, requests, consent', bonds, par)
    BY <1>3, <1>6, <2>1, <2>3, TakenByPeripheral
  <2>5. Lesc(sm[C], w, net'[C], net'[P], key, session, requests, consent', bonds, par)
    BY <1>7, <2>1, <2>4, SentPlainlyToCentral
  <2> QED
    BY <1>1, <2>1, <2>5 DEF LescInv, Good, par
<1>13. CASE Handle(P, f, <<x, y>>)
  <2> DEFINE r == net[C] \o <<x>>
  <2>1. /\ sm'[P] = f /\ sm'[C] = sm[C] /\ Shrinks(net[P], h, net'[P])
        /\ net'[C] = net[C] \o <<x, y>>
    BY <1>1, <1>2, <1>13, PeripheralHandles DEF h
  <2>2. Grows(net[C], x, r) /\ Grows(r, y, net'[C])
    BY <2>1, Known, SendsTwo
  <2> HIDE DEF r
  <2>3. Lesc(sm[C], f, net[C], net[P], key, session, requests, consent', bonds, par)
    BY <1>8, <1>11, Known, PeripheralRests
  <2>4. f.state = "idle"
    BY <1>8 DEF Rested
  <2>5. Lesc(sm[C], f, net[C], net'[P], key, session, requests, consent', bonds, par)
    BY <2>1, <2>3, <2>4, TakenByPeripheral
  <2>6. Lesc(sm[C], f, r, net'[P], key, session, requests, consent', bonds, par)
    BY <1>7, <2>2, <2>5, SentPlainlyToCentral
  <2>7. Lesc(sm[C], f, net'[C], net'[P], key, session, requests, consent', bonds, par)
    BY <1>7, <2>2, <2>6, SentPlainlyToCentral
  <2> QED
    BY <1>1, <2>1, <2>7 DEF LescInv, Good, par
<1> QED
  BY <1>9, <1>12, <1>13

LEMMA OnRandomOfRoundAtResponderAtPeripheral ==
  ASSUME Good, OnRandomOfRoundAtResponder(P)
  PROVE  LescInv'
<1> DEFINE h == Head(net[P])
           s == [sm[P] EXCEPT !.irand = Value(P)]
           w == IF s.round = Rounds THEN [s EXCEPT !.state = "random_sent"]
                ELSE [s EXCEPT !.state = "random_sent_stage", !.round = @ + 1]
           x == Pdu("random", s.rrand)
<1>1. /\ net[P] # <<>> /\ h.t = "random" /\ sm[P].state = "confirm_sent_stage" /\ Only
      /\ Handle(P, w, <<x>>) \/ Refuse(P)
  BY DEF OnRandomOfRoundAtResponder, In, Received, Only_sm_net, Only, link, ghosts
<1>2. h.t \notin Req /\ h.t \notin Pk /\ x.t = "random" /\ x.t \notin Pk
  BY <1>1 DEF Req, Pk, Pdu
<1>3. DOMAIN sm[P] = Fields /\ Keyless(sm[P])
  BY <1>1, PeripheralHolds DEF Late
<1>4. /\ w.state \in {"random_sent", "random_sent_stage"} /\ w.id = sm[P].id
      /\ w.ipar = sm[P].ipar /\ w.rpar = sm[P].rpar
      /\ w.method = sm[P].method /\ w.own = sm[P].own /\ Keyless(w) /\ w.peer = sm[P].peer
      /\ w.rconf = sm[P].rconf /\ w.passkey = sm[P].passkey
  BY <1>3 DEF Keyless, Fields
<1>5. Consented(P, sm[P].id, Shown(sm[P]), consent, par)
  BY <1>1, Known DEF Lesc, PeripheralOK, Asked
<1>6. CASE Refuse(P)
  BY <1>1, <1>6, PeripheralRefuses
<1> HIDE DEF h, s, w, x
<1>7. CASE Handle(P, w, <<x>>)
  <2>1. /\ sm'[P] = w /\ sm'[C] = sm[C] /\ Shrinks(net[P], h, net'[P])
        /\ Grows(net[C], x, net'[C])
    BY <1>1, <1>7, PeripheralSends DEF h
  <2>2. Lesc(sm[C], w, net[C], net[P], key, session, requests, consent, bonds, par)
    BY <1>1, <1>4, <1>5, Known, PeripheralReveals
  <2>3. w.state \notin {"idle", "pairing_req", "confirm_sent_stage"}
    BY <1>4
  <2>4. Lesc(sm[C], w, net[C], net'[P], key, session, requests, consent, bonds, par)
    BY <1>2, <2>1, <2>2, <2>3, TakenByPeripheral
  <2>5. Lesc(sm[C], w, net'[C], net'[P], key, session, requests, consent, bonds, par)
    BY <1>2, <2>1, <2>4, SentPlainlyToCentral
  <2> QED
    BY <1>1, <2>1, <2>5, OnlyLesc
<1> QED
  BY <1>1, <1>6, <1>7

LEMMA OnDhkeyCheckAtPeripheral ==
  ASSUME Good, OnDhkeyCheck(P)
  PROVE  LescInv'
<1> DEFINE h == Head(net[P])
           s == WithLongTermKey(sm[P])
           t == [s EXCEPT !.state = "dhkey_sent"]
           x == Pdu("dhkey_check", CheckValue(s, "responder"))
<1>1. /\ net[P] # <<>> /\ h.t = "dhkey_check" /\ UNCHANGED <<scenario, session, bonds, requests, consent>>
  BY DEF OnDhkeyCheck, In, Received, ghosts
<1>2. /\ h \in Elems(net[P]) /\ h.t \in Dh /\ h.t \notin Req /\ h.t \notin Pk /\ h.t \notin Turn
  BY <1>1, FirstPdu, TwoPeers DEF Dh, Req, Pk, Turn
<1>3. CheckOK(h.v, C, "initiator", requests, consent, par)
  BY <1>2, Known DEF Lesc, ToPeripheral
<1>4. h.v # CheckValue(sm[P], "responder")
  BY <1>3 DEF CheckOK, CheckValue
<1>5. \/ Refuse(P) /\ UNCHANGED key
      \/ /\ sm[P].state = "random_sent" /\ h.v = CheckValue(s, "initiator")
         /\ Handle(P, t, <<x>>) /\ key' = [key EXCEPT ![P] = t.ltk]
  BY <1>4 DEF OnDhkeyCheck, Checked, In, Value
<1>6. CASE Refuse(P) /\ UNCHANGED key
  BY <1>1, <1>2, <1>6, PeripheralRefuses DEF Only
<1>7. CASE /\ sm[P].state = "random_sent" /\ h.v = CheckValue(s, "initiator")
           /\ Handle(P, t, <<x>>) /\ key' = [key EXCEPT ![P] = t.ltk]
  <2>1. /\ DOMAIN sm[P] = Fields /\ DOMAIN sm[P].got = {"ltk", "ediv", "irk", "address", "csrk"}
        /\ Keyless(sm[P]) /\ sm[P].own = <<P, sm[P].id>> /\ sm[P].peer = <<C, sm[P].id>>
        /\ sm[P].id \in 1..requests /\ sm[P].id # 0
    BY <1>7, PeripheralHolds DEF Late
  <2>2. LongTermKey(sm[P]) # None /\ LongTermKey(sm[P])[2] = Pair(sm[P].id)
    BY <2>1 DEF LongTermKey, None, Pair
  <2>3. /\ DOMAIN s = Fields
        /\ s.id = sm[P].id /\ s.ipar = sm[P].ipar /\ s.rpar = sm[P].rpar
        /\ s.method = sm[P].method /\ s.own = sm[P].own /\ s.peer = sm[P].peer
        /\ s.passkey = sm[P].passkey /\ s.irk = sm[P].irk /\ s.csrk = sm[P].csrk
        /\ s.got.irk = sm[P].got.irk /\ s.got.csrk = sm[P].got.csrk
        /\ s.got.ltk = s.ltk /\ s.ltk = LongTermKey(sm[P])
    BY <2>1 DEF WithLongTermKey, Fields
  <2> HIDE DEF s
  <2>4. /\ t.state = "dhkey_sent" /\ t.id = sm[P].id /\ t.ipar = sm[P].ipar /\ t.rpar = sm[P].rpar
        /\ t.method = sm[P].method /\ t.own = sm[P].own /\ t.peer = sm[P].peer
        /\ t.passkey = sm[P].passkey /\ Keyless(t)
        /\ t.got.ltk = t.ltk /\ t.ltk # None /\ t.ltk[2] = Pair(sm[P].id) /\ t.ltk = s.ltk
    BY <2>1, <2>2, <2>3 DEF Fields, Keyless
  <2>5. CheckValue(t, "responder") = CheckValue(s, "responder") /\ Shown(s) = Shown(sm[P])
    BY <2>3, <2>4 DEF CheckValue, Shown
  <2>6. x.t \in Dh /\ x.v = CheckValue(t, "responder")
    BY <2>5 DEF Pdu, Dh
  <2>7. h.v[2] = s.ltk /\ h.v[4] = Shown(s)
    BY <1>7 DEF CheckValue, Shown
  <2>8. Consented(P, sm[P].id, Shown(sm[P]), consent, par)
    BY <1>7, Known DEF Lesc, PeripheralOK, Asked
  <2>9. PICK i \in 1..requests : h.v[2][2] = Pair(i) /\ Consented(C, i, h.v[4], consent, par)
    BY <1>3 DEF CheckOK
  <2>10. i = sm[P].id
    BY <2>2, <2>3, <2>7, <2>9, PairsDiffer
  <2>11. BothDid(sm[P].id, consent, par)
    BY <2>5, <2>7, <2>8, <2>9, <2>10 DEF Consented, BothDid
  <2>12. key'[P] = t.ltk /\ key'[C] = key[C] /\ DOMAIN key' = Peers
    BY <1>7, TwoPeers DEF Good, LescInv
  <2> HIDE DEF h, t, x
  <2>13. /\ sm'[P] = t /\ sm'[C] = sm[C] /\ Shrinks(net[P], h, net'[P]) /\ Grows(net[C], x, net'[C])
    BY <1>1, <1>7, PeripheralSends DEF h
  <2>14. ~NoneIn(net[P], Dh)
    BY <1>2 DEF NoneIn
  <2>15. /\ Never(net[P], Dh, Dh)
         /\ NoneIn(net[C], Rsp) /\ NoneIn(net[P], EncReq) /\ NoneIn(net[C], EncRsp)
    BY <2>14, Known DEF Lesc, Checks
  <2>16. NoneIn(net'[P], Dh) /\ NoneIn(net'[P], EncReq)
    BY <1>2, <2>13, <2>15 DEF Shrinks
  <2>17. sm[C].state \in Mid \/ sm[C].id = sm[P].id =>
           sm[C].state = "dhkey_sent" /\ sm[C].id = sm[P].id
    <3>1. h.v[2][2] = Pair(sm[P].id)
      BY <2>9, <2>10
    <3>2. ASSUME sm[C].state \in Mid \/ sm[C].id = sm[P].id
          PROVE  sm[C].state = "dhkey_sent" /\ h.v = CheckValue(sm[C], "initiator")
      BY <1>2, <2>1, <3>1, <3>2, Known DEF Lesc, Checks
    <3>3. sm[C].state = "dhkey_sent" => sm[C].ltk[2] = Pair(sm[C].id)
      BY Known DEF Lesc, CentralOK
    <3>4. \A g : h.v = CheckValue(g, "initiator") => h.v[2] = g.ltk
      BY DEF CheckValue
    <3> QED
      BY <3>1, <3>2, <3>3, <3>4, PairsDiffer
  <2>18. sm[C].state = "dhkey_sent" =>
           \A y \in Elems(net[C]) : y.t \in Dh => y.v[2][2] # Pair(sm[C].id)
    <3>1. sm[C].state = "dhkey_sent" => sm[C].id # 0
      BY Known DEF Lesc, CentralOK
    <3> QED
      BY <2>14, <3>1, Known DEF Lesc, Checks
  <2>19. Lesc(sm[C], sm[P], net[C], net'[P], key, session, requests, consent, bonds, par)
    BY <1>2, <2>13, Known, TakenByPeripheral
  <2>20. Lesc(sm[C], t, net'[C], net'[P], key', session, requests, consent, bonds, par)
    <3>1. /\ t.state = "dhkey_sent" /\ t.id = sm[P].id /\ t.ipar = sm[P].ipar /\ t.rpar = sm[P].rpar
          /\ t.method = sm[P].method /\ t.own = sm[P].own /\ t.peer = sm[P].peer
          /\ t.passkey = sm[P].passkey /\ Keyless(t)
      BY <2>4
    <3>2. t.ltk = t.got.ltk /\ t.ltk # None /\ t.ltk[2] = Pair(sm[P].id)
      BY <2>4
    <3>3. NoneIn(net[C], Rsp) /\ NoneIn(net[C], EncRsp)
      BY <2>15
    <3>4. Grows(net[C], x, net'[C])
      BY <2>13
    <3>5. sm[P].state = "random_sent"
      BY <1>7
    <3>6. key'[P] = t.ltk /\ key'[C] = key[C]
      BY <2>12
    <3>7. x.t \in Dh
      BY <2>6
    <3>8. x.v = CheckValue(t, "responder")
      BY <2>6
    <3> QED
      BY <2>11, <2>16, <2>17, <2>18, <2>19, <3>1, <3>2, <3>3, <3>4, <3>5, <3>6, <3>7, <3>8,
         PeripheralChecks
  <2> QED
    BY <1>1, <2>12, <2>13, <2>20 DEF LescInv, Good, par
<1> QED
  BY <1>5, <1>6, <1>7

LEMMA OnEncReqLesc ==
  ASSUME Good, NEW q \in Peers, OnEncReq(q)
  PROVE  LescInv'
<1> DEFINE x == Notice("enc_rsp")
           y == Notice("start_enc_req")
<1>1. /\ net[q] # <<>> /\ Head(net[q]).t = "enc_req" /\ Handle(q, sm[q], <<x, y>>)
      /\ session' = [session EXCEPT ![q] = key[q]]
      /\ UNCHANGED <<scenario, key, bonds, requests, consent>>
  BY DEF OnEncReq, SetEncryption, Received, ghosts
<1>2. q = P
  BY <1>1, FirstPdu, Directions, TwoPeers
<1>3. x.t \in EncRsp /\ y.t \in StartReq
  BY DEF Notice, Pdu, EncRsp, StartReq
<1> DEFINE m == net[C] \o <<x>>
<1> HIDE DEF x, y
<1>4. /\ sm'[P] = sm[P] /\ sm'[C] = sm[C] /\ Shrinks(net[P], Head(net[P]), net'[P])
      /\ net'[C] = net[C] \o <<x, y>>
  BY <1>1, <1>2, PeripheralHandles
<1>5. Grows(net[C], x, m) /\ Grows(m, y, net'[C])
  BY <1>4, Known, SendsTwo
<1>6. session'[P] = key[P] /\ session'[C] = session[C] /\ DOMAIN session' = Peers
  BY <1>1, <1>2, TwoPeers DEF Good, LescInv
<1>7. Head(net[P]).t \in EncReq
  BY <1>1, <1>2 DEF EncReq
<1> HIDE DEF m
<1>8. Lesc(sm[C], sm[P], net'[C], net'[P], key, session', requests, consent, bonds, par)
  <2> DEFINE h == Head(net[P])
  <2>1. Shrinks(net[P], h, net'[P]) /\ h.t \in EncReq
    BY <1>4, <1>7
  <2> HIDE DEF h
  <2>2. Lesc(sm[C], sm[P], net[C], net[P], key, session, requests, consent, bonds, par)
    BY Known
  <2>3. session'[P] = key[P] /\ session'[C] = session[C]
    BY <1>6
  <2>4. Lesc(sm[C], sm[P], net'[C], net'[P], key, session', requests, consent, bonds, par)
    BY <1>3, <1>5, <2>1, <2>2, <2>3, PeripheralSessionSet
  <2> QED
    BY <1>4, <2>4
<1> QED
  BY <1>1, <1>4, <1>6, <1>8 DEF LescInv, Good, par

\* While a PDU of an encrypted link is on its way to the peripheral, the two
\* sessions are the same.
LEMMA EncryptedAtPeripheral ==
  ASSUME Good, net[P] # <<>>, NEW r, Shrinks(net[P], Head(net[P]), r), Head(net[P]).t \in Enc
  PROVE  /\ Encrypted(net[C], r, session)
         /\ Lesc(sm[C], sm[P], net[C], r, key, session, requests, consent, bonds, par)
         /\ sm[C].state \in Mid =>
              /\ ~Linked(sm[C]) /\ sm[C].state # "dhkey_sent"
              /\ \A y \in Elems(net[C]) : ~Committed(y, sm[C].id)
<1> DEFINE h == Head(net[P])
<1>1. h \in Elems(net[P]) /\ h.t \notin Req /\ h.t \notin Pk /\ h.t \notin Turn
  BY DEF Shrinks, Enc, StartRsp, Keys, Req, Pk, Turn
<1>2. ~NoneIn(net[P], Enc)
  BY <1>1 DEF NoneIn
<1>3. /\ NoneIn(net[P], EncReq) /\ NoneIn(net[C], EncRsp)
      /\ session[C] # None /\ session[C] = session[P]
  BY <1>2, Known DEF Lesc, Encryption
<1>4. NoneIn(r, EncReq)
  BY <1>3 DEF Shrinks
<1>5. sm[C].state = "dhkey_sent" => Linked(sm[C])
  BY Known DEF Lesc, CentralOK, Linked
<1>6. Lesc(sm[C], sm[P], net[C], r, key, session, requests, consent, bonds, par)
  BY <1>1, Known, TakenByPeripheral
<1> QED
  BY <1>2, <1>3, <1>4, <1>5, <1>6, Known DEF Encrypted, Lesc, Old, NothingOld

LEMMA PeripheralAnswers ==
  ASSUME Good, net[P] # <<>>, NEW r, Shrinks(net[P], Head(net[P]), r), Head(net[P]).t \in Enc,
         NEW x, x.t \in StartRsp, NEW q, Grows(net[C], x, q)
  PROVE  /\ Lesc(sm[C], sm[P], q, r, key, session, requests, consent, bonds, par)
         /\ Encrypted(q, r, session)
<1>1. x.t \notin EncRsp
  BY DEF StartRsp, EncRsp
<1>2. /\ Encrypted(net[C], r, session)
      /\ Lesc(sm[C], sm[P], net[C], r, key, session, requests, consent, bonds, par)
      /\ sm[C].state \in Mid =>
           ~Linked(sm[C]) /\ \A y \in Elems(net[C]) : ~Committed(y, sm[C].id)
  BY EncryptedAtPeripheral
<1>3. Lesc(sm[C], sm[P], q, r, key, session, requests, consent, bonds, par)
  BY <1>2, PeripheralStarts
<1> QED
  BY <1>1, <1>2, <1>3 DEF Encrypted, Grows

Joins(s, x, t) == s \o (<<x>> \o t) = (s \o <<x>>) \o t

LEMMA SendsFirst ==
  ASSUME NEW s, IsQueue(s), NEW t, IsQueue(t), NEW x
  PROVE  Joins(s, x, t)
<1>1. PICK S : s \in Seq(S)
  BY DEF IsQueue
<1>2. PICK T : t \in Seq(T)
  BY DEF IsQueue
<1> DEFINE U == S \cup T \cup {x}
<1>3. s \in Seq(U) /\ t \in Seq(U) /\ <<x>> \in Seq(U)
  BY <1>1, <1>2
<1> HIDE DEF U
<1> QED
  BY <1>3, ConcatAssociative DEF Joins

LEMMA OnStartEncRspAtPeripheral ==
  ASSUME Good, OnStartEncRsp(P)
  PROVE  LescInv'
<1> DEFINE x == Notice("start_enc_rsp")
           h == Head(net[P])
           answer == IF sm[P].initiator THEN <<>> ELSE <<x>>
<1>1. /\ net[P] # <<>> /\ h.t = "start_enc_rsp"
      /\ UNCHANGED <<scenario, key, session, requests, consent>>
      /\ \/ MayDistribute(sm[P]) /\ Distribute(P, sm[P], answer)
         \/ Handle(P, sm[P], answer) /\ UNCHANGED bonds
  BY DEF OnStartEncRsp, Received, link, ghosts
<1>2. h.t \in Enc
  BY <1>1 DEF Enc, StartRsp
<1>3. x.t \in StartRsp
  BY DEF Notice, Pdu, StartRsp
<1> HIDE DEF x, h
<1>4. CASE sm[P].initiator /\ Handle(P, sm[P], answer) /\ UNCHANGED bonds
  <2>1. /\ sm'[P] = sm[P] /\ sm'[C] = sm[C] /\ Shrinks(net[P], h, net'[P])
        /\ net'[C] = net[C]
    BY <1>1, <1>4, PeripheralHandles, Known, SendsNothing DEF h
  <2>2. Lesc(sm[C], sm[P], net[C], net'[P], key, session, requests, consent, bonds, par)
    BY <1>1, <1>2, <2>1, EncryptedAtPeripheral DEF h
  <2> QED
    BY <1>1, <1>4, <2>1, <2>2, OnlyLesc DEF Only
<1>5. CASE ~sm[P].initiator /\ Handle(P, sm[P], answer) /\ UNCHANGED bonds
  <2>1. /\ sm'[P] = sm[P] /\ sm'[C] = sm[C] /\ Shrinks(net[P], h, net'[P])
        /\ Grows(net[C], x, net'[C])
    BY <1>1, <1>5, PeripheralSends DEF h
  <2>2. Lesc(sm[C], sm[P], net'[C], net'[P], key, session, requests, consent, bonds, par)
    BY <1>1, <1>2, <1>3, <2>1, PeripheralAnswers DEF h
  <2> QED
    BY <1>1, <1>5, <2>1, <2>2, OnlyLesc DEF Only
<1>6. CASE MayDistribute(sm[P]) /\ Distribute(P, sm[P], answer)
  <2> DEFINE w == WithOwnKeys(P, sm[P])
             g == IF "sign" \in OwnKeys(sm[P]) THEN [w EXCEPT !.state = "distribute"] ELSE w
             out == KeyPdus(P, sm[P])
             K == Elems(out)
             m == net[C] \o <<x>>
  <2>1. sm[P].state = "dhkey_sent"
    <3>1. sm[P].state \notin {"legacy_random_sent", "legacy_random_recvd"}
      BY Known DEF Lesc, PeripheralOK, Asked
    <3> QED
      BY <1>6, <3>1 DEF MayDistribute
  <2>2. /\ DOMAIN sm[P] = Fields /\ sm[P].rpar = par[P] /\ sm[P].ltk # None
        /\ sm[P].irk = None \/ sm[P].irk = OwnIrk(P, sm[P].id, par)
        /\ sm[P].csrk = None \/ sm[P].csrk = OwnCsrk(P, sm[P].id, par)
        /\ ~sm[P].initiator
    <3>1. sm[P].state \in Late /\ sm[P].state # "idle"
      BY <2>1 DEF Late
    <3>2. PeripheralOK(sm[P], requests, consent, par)
      BY Known DEF Lesc
    <3>3. DOMAIN sm[P] = Fields /\ ~sm[P].initiator
      BY <3>1, Known, TwoPeers
    <3> QED
      BY <3>1, <3>2, <3>3 DEF PeripheralOK, KeysKnown
  <2>3. OwnKeys(sm[P]) = par[P].keys
    BY <2>2 DEF OwnKeys
  <2>4. IsQueue(out) /\ KeysOnly(K, P, sm[P].id, par)
    BY <2>2, <2>3, KeyPdusOnly
  <2>5. /\ DOMAIN w = Fields /\ w.state = sm[P].state
        /\ w.id = sm[P].id /\ w.ipar = sm[P].ipar /\ w.rpar = sm[P].rpar
        /\ w.method = sm[P].method /\ w.own = sm[P].own /\ w.peer = sm[P].peer
        /\ w.passkey = sm[P].passkey /\ w.ltk = sm[P].ltk /\ w.got = sm[P].got
        /\ w.irk = OwnIrk(P, sm[P].id, par) /\ w.csrk = OwnCsrk(P, sm[P].id, par)
    <3>1. /\ sm[P].irk \in {None, OwnIrk(P, sm[P].id, par)}
          /\ sm[P].csrk \in {None, OwnCsrk(P, sm[P].id, par)}
      BY <2>2
    <3>2. DOMAIN sm[P] = Fields /\ sm[P].ltk # None
      BY <2>2
    <3> HIDE DEF w
    <3> QED
      BY <2>3, <3>1, <3>2, OwnKeysKnown DEF w
  <2>6. Handle(P, g, <<x>> \o out) /\ UNCHANGED bonds
    BY <1>6, <2>2 DEF Distribute
  <2> HIDE DEF w, out
  <2>7. /\ g.state \in {"dhkey_sent", "distribute"}
        /\ g.id = sm[P].id /\ g.ipar = sm[P].ipar /\ g.rpar = sm[P].rpar
        /\ g.method = sm[P].method /\ g.own = sm[P].own /\ g.peer = sm[P].peer
        /\ g.passkey = sm[P].passkey /\ g.ltk = sm[P].ltk /\ g.got = sm[P].got
        /\ g.irk = OwnIrk(P, g.id, par) /\ g.csrk = OwnCsrk(P, g.id, par)
    BY <2>1, <2>5 DEF Fields
  <2> HIDE DEF g
  <2>8. Generated(g, par)
    BY <2>7 DEF Generated
  <2>9. /\ sm'[P] = g /\ sm'[C] = sm[C] /\ Shrinks(net[P], h, net'[P])
        /\ net'[C] = net[C] \o (<<x>> \o out)
    BY <1>1, <2>6, PeripheralHandles DEF h
  <2>10. net'[C] = m \o out
    <3>1. IsQueue(net[C]) /\ IsQueue(out)
      BY <2>4, Known
    <3>2. Joins(net[C], x, out)
      <4> HIDE DEF x
      <4> QED
        BY <3>1, SendsFirst
    <3> QED
      BY <2>9, <3>2 DEF Joins
  <2>11. Grows(net[C], x, m)
    BY Known, GrowsBy
  <2> HIDE DEF m
  <2>12. Extends(m, K, net'[C])
    <3>1. IsQueue(m)
      BY <2>11 DEF Grows
    <3> QED
      BY <2>4, <2>10, <3>1, ExtendsOf
  <2>13. /\ Lesc(sm[C], sm[P], m, net'[P], key, session, requests, consent, bonds, par)
         /\ Encrypted(m, net'[P], session)
    BY <1>1, <1>2, <1>3, <2>9, <2>11, PeripheralAnswers DEF h
  <2>14. sm[C].state \notin Mid
    <3>1. sm[C].state \in Mid => sm[C].state # "dhkey_sent"
      BY <1>1, <1>2, <2>9, EncryptedAtPeripheral DEF h
    <3>2. sm[P].state \in Late
      BY <2>1 DEF Late
    <3> QED
      BY <3>1, <3>2, Known DEF Lesc, Old, NothingOld
  <2> HIDE DEF K
  <2>15. Lesc(sm[C], g, net'[C], net'[P], key, session, requests, consent, bonds, par)
    BY <2>1, <2>4, <2>7, <2>8, <2>12, <2>13, <2>14, PeripheralDistributes
  <2> QED
    BY <1>1, <2>6, <2>9, <2>15, OnlyLesc DEF Only
<1> QED
  BY <1>1, <1>4, <1>5, <1>6

LEMMA OnKeyAtPeripheral ==
  ASSUME Good, OnKey(P)
  PROVE  LescInv'
<1> DEFINE h == Head(net[P])
<1>1. PICK t \in KeyTypes :
        LET s == Taking(sm[P], t, Value(P)) IN
        /\ Received(P, t) /\ PeerOf(s) # NoParameters
        /\ \/ Complete(s) /\ s.initiator  /\ Distribute(P, s, <<>>)
           \/ Complete(s) /\ ~s.initiator /\ Done(P, s, <<>>)
           \/ ~Complete(s) /\ Handle(P, s, <<>>) /\ UNCHANGED bonds
        /\ UNCHANGED <<scenario, link, threads, ghosts>>
  BY DEF OnKey, Taking
<1> DEFINE s == Taking(sm[P], t, Value(P))
<1>2. /\ net[P] # <<>> /\ h.t = t /\ PeerOf(s) # NoParameters
      /\ UNCHANGED <<scenario, key, session, requests, consent>>
      /\ \/ s.initiator
         \/ ~s.initiator /\ Done(P, s, <<>>)
         \/ Handle(P, s, <<>>) /\ UNCHANGED bonds
  BY <1>1 DEF Received, link, ghosts
<1>3. t \in Keys
  BY <1>1, <1>2, FirstPdu, Directions, TwoPeers DEF KeyTypes, Keys
<1>4. Value(P) = h.v
  BY DEF Value
<1>5. /\ DOMAIN s = Fields /\ s.initiator = sm[P].initiator
      /\ s.state = sm[P].state /\ s.id = sm[P].id /\ s.ipar = sm[P].ipar /\ s.rpar = sm[P].rpar
      /\ s.method = sm[P].method /\ s.own = sm[P].own /\ s.peer = sm[P].peer
      /\ s.passkey = sm[P].passkey
      /\ s.ltk = sm[P].ltk /\ s.irk = sm[P].irk /\ s.csrk = sm[P].csrk
      /\ s.got.ltk = sm[P].got.ltk
      /\ s.got.irk = IF t = "identity_information" THEN h.v ELSE sm[P].got.irk
      /\ s.got.csrk = IF t = "signing_information" THEN h.v ELSE sm[P].got.csrk
  BY <1>3, <1>4, PeripheralHolds, KeyNoted
<1> HIDE DEF s, h
<1>6. h \in Elems(net[P]) /\ h.t \in Keys /\ h.t \in Enc
  BY <1>2, <1>3, FirstPdu, TwoPeers DEF h, Enc
<1>7. sm[P].state # "idle" /\ sm[P].id # 0 /\ ~s.initiator
  <2>1. sm[P].state # "idle"
    BY <1>2, <1>5, Known, TwoPeers DEF PeerOf
  <2> QED
    BY <1>5, <2>1, Known, PeripheralHolds
<1>8. /\ sm[P].state \in Late /\ Generated(sm[P], par) /\ KeyPdu(h, C, sm[P].id, par)
      /\ sm[P].id = sm[C].id => sm[C].state = "done"
  BY <1>6, <1>7, Known DEF Lesc, Distribution
<1>9. KeysKnown(sm[P], P, C, par)
  BY Known DEF Lesc, PeripheralOK
<1>10. KeysKnown(s, P, C, par)
  BY <1>2, <1>5, <1>8, <1>9 DEF KeysKnown, KeyPdu
<1> DEFINE g == [s EXCEPT !.state = "done"]
<1>11. /\ g.state = "done" /\ g.id = s.id /\ g.ipar = s.ipar /\ g.rpar = s.rpar
       /\ g.method = s.method /\ g.own = s.own /\ g.peer = s.peer
       /\ g.passkey = s.passkey /\ g.ltk = s.ltk /\ g.got = s.got
       /\ g.irk = s.irk /\ g.csrk = s.csrk /\ Bond(g) = Bond(s)
  BY <1>5 DEF Fields, Bond
<1>12. CASE Handle(P, s, <<>>) /\ UNCHANGED bonds
  <2>1. /\ sm'[P] = s /\ sm'[C] = sm[C] /\ Shrinks(net[P], h, net'[P]) /\ net'[C] = net[C]
    BY <1>2, <1>12, PeripheralHandles, Known, SendsNothing DEF h
  <2>2. Lesc(sm[C], sm[P], net[C], net'[P], key, session, requests, consent, bonds, par)
    BY <1>2, <1>6, <2>1, EncryptedAtPeripheral DEF h
  <2>3. Lesc(sm[C], s, net[C], net'[P], key, session, requests, consent, bonds, par)
    BY <1>5, <1>8, <1>10, <2>2, PeripheralTakesKey
  <2> QED
    BY <1>2, <1>12, <2>1, <2>3, OnlyLesc DEF Only
<1>13. CASE Done(P, s, <<>>)
  <2>1. /\ Handle(P, g, <<>>)
        /\ bonds' = bonds \/ bonds' = [bonds EXCEPT ![P] = @ \cup {Bond(s)}]
    BY <1>13 DEF Done
  <2> HIDE DEF g
  <2>2. /\ sm'[P] = g /\ sm'[C] = sm[C] /\ Shrinks(net[P], h, net'[P]) /\ net'[C] = net[C]
    BY <1>2, <2>1, PeripheralHandles, Known, SendsNothing DEF h
  <2>3. Lesc(sm[C], sm[P], net[C], net'[P], key, session, requests, consent, bonds, par)
    BY <1>2, <1>6, <2>2, EncryptedAtPeripheral DEF h
  <2>4. KeysKnown(g, P, C, par) /\ g.got.ltk = sm[P].got.ltk /\ Generated(g, par)
    BY <1>5, <1>8, <1>10, <1>11 DEF KeysKnown, Generated
  <2>5. Lesc(sm[C], g, net[C], net'[P], key, session, requests, consent, bonds, par)
    BY <1>5, <1>8, <1>11, <2>3, <2>4, PeripheralTakesKey
  <2>6. g.id = sm[C].id => sm[C].state = "done"
    BY <1>5, <1>8, <1>11
  <2>7. bonds' = bonds \/ (/\ bonds'[C] = bonds[C]
                           /\ \A f \in bonds'[P] : f \in bonds[P] \/ f = Bond(g))
    BY <1>11, <2>1, Known, TwoPeers
  <2>8. Lesc(sm[C], g, net[C], net'[P], key, session, requests, consent, bonds', par)
    BY <1>11, <2>4, <2>5, <2>6, <2>7, PeripheralStores
  <2> QED
    BY <1>2, <2>2, <2>8 DEF LescInv, Good, par
<1> QED
  BY <1>2, <1>7, <1>12, <1>13

-----------------------------------------------------------------------------
(* LE Secure Connections: the theorems                                     *)

\* Nothing is handled as a PDU of a legacy pairing.
LEMMA NoLegacyPdu ==
  ASSUME Good, NEW q \in Peers
  PROVE  /\ ~OnLegacyConfirm(q) /\ ~OnLegacyRandomOfInitiator(q)
         /\ ~OnLegacyRandomOfResponder(q)
<1>1. /\ sm[C].state \notin {"pairing_req", "legacy_confirm_sent", "legacy_random_sent"}
      /\ sm[P].state \notin {"legacy_confirm_sent", "legacy_random_sent"}
  BY Known DEF Lesc, CentralOK, PeripheralOK, Mid, Over, Asked
<1>2. ~In(q, "legacy_confirm_sent", "confirm") /\ ~In(q, "legacy_confirm_sent", "random")
      /\ ~In(q, "legacy_random_sent", "random")
  BY <1>1, TwoPeers DEF In
<1>3. ~In(q, "pairing_req", "confirm")
  <2> SUFFICES ASSUME In(q, "pairing_req", "confirm") PROVE FALSE
    OBVIOUS
  <2>1. q = P /\ sm[P].state = "pairing_req" /\ net[P] # <<>> /\ Head(net[P]).t = "confirm"
    BY <1>1, TwoPeers DEF In, Received
  <2>2. Head(net[P]) \in Elems(net[P]) /\ FirstOf(net[P], Pk, Head(net[P]))
    BY <2>1, FirstPdu
  <2> QED
    BY <2>1, <2>2, Known DEF Lesc, RoundsOK, Cfm
<1> QED
  BY <1>2, <1>3 DEF OnLegacyConfirm, OnLegacyRandomOfInitiator, OnLegacyRandomOfResponder

LEMMA MessageLesc ==
  ASSUME Good, NEW q \in Peers, Message(q)
  PROVE  LescInv'
<1>1. OnConfirmOfInitiator(q) => LescInv'
  BY TwoPeers, OnConfirmOfInitiatorAtCentral, OnConfirmOfInitiatorAtPeripheral
<1>2. OnRandomOfRoundAtResponder(q) => LescInv'
  BY TwoPeers, OnRandomOfRoundAtResponderAtCentral, OnRandomOfRoundAtResponderAtPeripheral
<1>3. OnDhkeyCheck(q) => LescInv'
  BY TwoPeers, OnDhkeyCheckAtCentral, OnDhkeyCheckAtPeripheral
<1>4. OnKey(q) => LescInv'
  BY TwoPeers, OnKeyAtCentral, OnKeyAtPeripheral
<1>5. OnStartEncRsp(q) => LescInv'
  BY TwoPeers, OnStartEncRspAtCentral, OnStartEncRspAtPeripheral
<1> QED
  BY <1>1, <1>2, <1>3, <1>4, <1>5, NoLegacyPdu, OnSecurityRequestLesc, OnPairingRequestLesc,
     OnPairingResponseLesc, DeclinedLesc, OnPublicKeyOfInitiatorLesc, OnPublicKeyOfResponderLesc,
     OnConfirmOfResponderLesc, OnRandomOfInitiatorLesc, OnRandomOfResponderLesc,
     OnRandomOfRoundLesc, OnEncReqLesc, OnEncRspLesc, OnStartEncReqLesc, OnFailedLesc,
     UnexpectedLesc, StrayPublicKeyLesc DEF Message

\* A scenario lasts.
LEMMA ScenarioFixed ==
  ASSUME [Next]_vars
  PROVE  scenario' = scenario
<1>1. ASSUME NEW q \in Peers, Message(q)
      PROVE  scenario' = scenario
  <2>1. OnSecurityRequest(q) => scenario' = scenario
    BY DEF OnSecurityRequest, Only_sm_net
  <2>2. OnPairingRequest(q) => scenario' = scenario
    BY DEF OnPairingRequest, Only_sm_net
  <2>3. OnPairingResponse(q) => scenario' = scenario
    BY DEF OnPairingResponse, Only_sm_net
  <2>4. Declined(q) => scenario' = scenario
    BY DEF Declined, Only_sm_net
  <2>5. OnLegacyConfirm(q) => scenario' = scenario
    BY DEF OnLegacyConfirm, Only_sm_net
  <2>6. OnLegacyRandomOfInitiator(q) => scenario' = scenario
    BY DEF OnLegacyRandomOfInitiator, Only_sm_net
  <2>7. OnLegacyRandomOfResponder(q) => scenario' = scenario
    BY DEF OnLegacyRandomOfResponder, Only_sm_net
  <2>8. OnPublicKeyOfInitiator(q) => scenario' = scenario
    BY DEF OnPublicKeyOfInitiator, Only_sm_net
  <2>9. OnPublicKeyOfResponder(q) => scenario' = scenario
    BY DEF OnPublicKeyOfResponder, Only_sm_net
  <2>10. OnConfirmOfInitiator(q) => scenario' = scenario
    BY DEF OnConfirmOfInitiator, Only_sm_net
  <2>11. OnConfirmOfResponder(q) => scenario' = scenario
    BY DEF OnConfirmOfResponder, Only_sm_net
  <2>12. OnRandomOfInitiator(q) => scenario' = scenario
    BY DEF OnRandomOfInitiator, Only_sm_net
  <2>13. OnRandomOfResponder(q) => scenario' = scenario
    BY DEF OnRandomOfResponder, Only_sm_net
  <2>14. OnRandomOfRound(q) => scenario' = scenario
    BY DEF OnRandomOfRound, Only_sm_net
  <2>15. OnRandomOfRoundAtResponder(q) => scenario' = scenario
    BY DEF OnRandomOfRoundAtResponder, Only_sm_net
  <2>16. OnDhkeyCheck(q) => scenario' = scenario
    BY DEF OnDhkeyCheck, Only_sm_net
  <2>17. OnKey(q) => scenario' = scenario
    BY DEF OnKey, Only_sm_net
  <2>18. OnEncReq(q) => scenario' = scenario
    BY DEF OnEncReq, Only_sm_net
  <2>19. OnEncRsp(q) => scenario' = scenario
    BY DEF OnEncRsp, Only_sm_net
  <2>20. OnStartEncReq(q) => scenario' = scenario
    BY DEF OnStartEncReq, Only_sm_net
  <2>21. OnStartEncRsp(q) => scenario' = scenario
    BY DEF OnStartEncRsp, Only_sm_net
  <2>22. OnFailed(q) => scenario' = scenario
    BY DEF OnFailed, Only_sm_net
  <2>23. Unexpected(q) => scenario' = scenario
    BY DEF Unexpected, Only_sm_net
  <2>24. StrayPublicKey(q) => scenario' = scenario
    BY DEF StrayPublicKey, Only_sm_net
  <2> QED
    BY <1>1, <2>1, <2>2, <2>3, <2>4, <2>5, <2>6, <2>7, <2>8, <2>9, <2>10, <2>11, <2>12, <2>13,
       <2>14, <2>15, <2>16, <2>17, <2>18, <2>19, <2>20, <2>21, <2>22, <2>23, <2>24 DEF Message
<1> QED
  BY <1>1 DEF Next, Application, Start, PollDone, PollFailed, ResetDone, Call, vars

LEMMA LescNext ==
  ASSUME Good, [Next]_vars
  PROVE  LescInv'
<1>1. ASSUME UNCHANGED sm, UNCHANGED net, Only
      PROVE  LescInv'
  <2>1. UNCHANGED <<scenario, sm, net, key, session, bonds, requests, consent>>
    BY <1>1 DEF Only
  <2> QED
    BY <2>1 DEF Good, LescInv, par
<1>2. ASSUME NEW q \in Peers, PollDone(q) \/ PollFailed(q) \/ Call(q)
      PROVE  LescInv'
  BY <1>1, <1>2 DEF PollDone, PollFailed, Call, link, ghosts, Only
<1>3. ASSUME NEW q \in Peers, Start(q)
      PROVE  LescInv'
  BY <1>3, TwoPeers, StartAtCentral, StartAtPeripheral
<1>4. CASE UNCHANGED vars
  BY <1>1, <1>4 DEF vars, Only
<1> QED
  BY <1>2, <1>3, <1>4, MessageLesc, ResetDoneLesc DEF Next, Application

LEMMA LescInit ==
  ASSUME PairingAssumption, Init
  PROVE  LescInv
<1>1. /\ requests = 0 /\ consent = {}
      /\ sm[C] = Fresh /\ sm[P] = Fresh /\ net[C] = <<>> /\ net[P] = <<>>
      /\ key[C] = None /\ key[P] = None /\ session[C] = None /\ session[P] = None
      /\ bonds[C] = {} /\ bonds[P] = {} /\ DOMAIN key = Peers /\ DOMAIN session = Peers
  BY TwoPeers DEF Init
<1>2. /\ IsQueue(<<>>) /\ Elems(<<>>) = {}
  BY FewElements
<1>3. /\ Fresh.state = "idle" /\ Fresh.id = 0 /\ Fresh.rpar = NoParameters /\ Fresh.peer = None
      /\ Keyless(Fresh)
  BY DEF Fresh, Keyless, NoKeys
<1> DEFINE f == Fresh
           b == <<>>
<1>4. f.state = "idle" /\ f.id = 0 /\ f.rpar = NoParameters /\ f.peer = None /\ Keyless(f)
  BY <1>3
<1>5. IsQueue(b) /\ Elems(b) = {}
  BY <1>2
<1> HIDE DEF f, b
<1>6. /\ \A T : NoneIn(b, T)
      /\ \A T, U : Never(b, T, U)
      /\ \A T, x : ~FirstOf(b, T, x) /\ ~LastOf(b, T, x)
      /\ \A x, y : ~Before(b, x, y)
      /\ \A T, x, y : ~Bare(b, T, x, y)
  BY <1>5, QueueElements DEF NoneIn, Never
<1>7. ASSUME NEW k, NEW z, NEW d, d[C] = {}, d[P] = {}, NEW o
      PROVE  Lesc(f, f, b, b, k, z, 0, {}, d, o)
  <2>1. /\ f.state \notin Mid /\ f.state \notin Over /\ f.state \notin Late /\ f.state \notin Asked
        /\ f.state \notin Turned /\ ~Linked(f)
    BY <1>4 DEF Mid, Over, Late, Asked, Turned, Linked
  <2>2. KeysKnown(f, C, P, o) /\ KeysKnown(f, P, C, o)
    BY <1>4 DEF KeysKnown, Keyless
  <2>3. CentralOK(f, 0, {}, o)
    BY <1>4, <2>1, <2>2 DEF CentralOK, Mid, Over
  <2>4. PeripheralOK(f, 0, {}, o)
    BY <1>4, <2>1, <2>2 DEF PeripheralOK
  <2>5. ToCentral(b, 0, {}, o) /\ ToPeripheral(b, 0, {}, o)
    BY <1>5 DEF ToCentral, ToPeripheral
  <2>6. Requests(f, f, b, b, 0) /\ PublicKeys(f, f, b) /\ RoundsOK(f, f, b)
    BY <1>4, <1>5, <1>6, <2>1 DEF Requests, PublicKeys, RoundsOK
  <2>7. Old(f, f, b, b)
    BY <1>6, <2>1 DEF Old
  <2>8. Checks(f, f, b, b, k) /\ Distribution(f, f, b, b, o)
    BY <1>4, <1>5, <1>6, <2>1 DEF Checks, Distribution
  <2>9. Encryption(b, b, k, z)
    BY <1>6 DEF Encryption
  <2>10. BondsOK(f, f, b, d, {}, o)
    BY <1>7, TwoPeers DEF BondsOK, StoredOK, Stored
  <2> QED
    BY <1>5, <2>3, <2>4, <2>5, <2>6, <2>7, <2>8, <2>9, <2>10 DEF Lesc
<1> QED
  BY <1>1, <1>7 DEF LescInv, f, b

LEMMA SpecLesc == PairingAssumption => (Spec => [](Inv /\ (BothLesc => LescInv)))
<1> SUFFICES ASSUME PairingAssumption PROVE Spec => [](Inv /\ (BothLesc => LescInv))
  OBVIOUS
<1>1. Init => Inv /\ (BothLesc => LescInv)
  BY InvInit, LescInit
<1>2. Inv /\ (BothLesc => LescInv) /\ [Next]_vars => (Inv /\ (BothLesc => LescInv))'
  <2> SUFFICES ASSUME Inv, BothLesc => LescInv, [Next]_vars
               PROVE  (Inv /\ (BothLesc => LescInv))'
    OBVIOUS
  <2>1. Inv'
    BY InvNext
  <2>2. BothLesc' => BothLesc
    BY ScenarioFixed DEF BothLesc, par
  <2>3. BothLesc => LescInv'
    BY LescNext DEF Good
  <2> QED
    BY <2>1, <2>2, <2>3
<1> QED
  BY <1>1, <1>2, PTL DEF Spec

-----------------------------------------------------------------------------
(* What LE Secure Connections promise                                       *)

\* Keys are sent once both sides have given their hardware the same key.
KeysGiven ==
  NoLegacyOverlap =>
    \A p \in Peers : \A i \in 1..Len(net[p]) :
      net[p][i].t \in KeyTypes \cup {"start_enc_rsp"} =>
        session["central"] # None /\ session["central"] = session["peripheral"]

\* Between sides that both use LE Secure Connections, whatever pairings follow
\* each other, fail or cross, a key is sent only once both sides have given
\* their hardware a key, and the same one: encryption starts with the key of
\* one pairing on both sides.
LEMMA LescKeysGiven ==
  PairingAssumption => (Spec => [](BothLesc => KeysGiven))
<1> SUFFICES ASSUME PairingAssumption PROVE Spec => [](BothLesc => KeysGiven)
  OBVIOUS
<1>1. Inv /\ (BothLesc => LescInv) => (BothLesc => KeysGiven)
  <2> SUFFICES ASSUME Good, NEW p \in Peers, NEW i \in 1..Len(net[p]),
                      net[p][i].t \in KeyTypes \cup {"start_enc_rsp"}
               PROVE  session["central"] # None /\ session["central"] = session["peripheral"]
    BY DEF Good, KeysGiven
  <2> DEFINE x == net[p][i]
  <2>1. x \in Elems(net[p])
    BY DEF Elems
  <2> HIDE DEF x
  <2>2. x.t \in ToC \cup ToP
    BY <2>1, Known, TwoPeers DEF Lesc, ToCentral, ToPeripheral
  <2>3. x.t \in Enc
    BY <2>2, Directions DEF x, KeyTypes, Enc, StartRsp, Keys
  <2>4. ~NoneIn(net[p], Enc)
    BY <2>1, <2>3 DEF NoneIn
  <2>5. session[C] # None /\ session[C] = session[P]
    BY <2>4, Known, TwoPeers DEF Lesc, Encryption
  <2> QED
    BY <2>5 DEF C, P
<1> QED
  BY <1>1, SpecLesc, PTL

\* Between such sides, the bonds that one pairing leaves on the two sides hold
\* the same keys and the same level of authentication: no key of an earlier
\* attempt is stored for a later one.
LEMMA LescBondsAgree ==
  PairingAssumption => (Spec => [](BothLesc => BondsAgree))
<1> SUFFICES ASSUME PairingAssumption PROVE Spec => [](BothLesc => BondsAgree)
  OBVIOUS
<1>1. Inv /\ (BothLesc => LescInv) => (BothLesc => BondsAgree)
  <2> SUFFICES ASSUME Good, NEW p \in Peers, NEW e \in bonds[p], NEW f \in bonds[Other(p)],
                      e.id = f.id
               PROVE  /\ e.auth = f.auth
                      /\ \A k \in {"ltk", "irk", "csrk"} : e.peer[k] # None => e.peer[k] = f.own[k]
    BY DEF Good, BondsAgree
  <2>1. /\ StoredOK(sm[C], C, P, bonds, consent, par) /\ StoredOK(sm[P], P, C, bonds, consent, par)
        /\ Stored(sm[C], sm[P], net[P], bonds)
    BY Known DEF Lesc, BondsOK
  <2>2. /\ e.auth = Auth(par) /\ f.auth = Auth(par)
        /\ e.peer.irk \in {None, OwnIrk(Other(p), e.id, par)}
        /\ e.peer.csrk \in {None, OwnCsrk(Other(p), e.id, par)}
        /\ f.own.irk = OwnIrk(Other(p), f.id, par) /\ f.own.csrk = OwnCsrk(Other(p), f.id, par)
        /\ e.peer.ltk = e.own.ltk
    BY <2>1, TwoPeers DEF StoredOK
  <2>3. e.own.ltk = f.own.ltk
    BY <2>1 DEF Stored
  <2> QED
    BY <2>2, <2>3
<1> QED
  BY <1>1, SpecLesc, PTL

\* Between such sides, a bond marked authenticated has the consent of both
\* users: they compared the same number, or typed the same passkey.
LEMMA LescAuthenticatedByUsers ==
  PairingAssumption => (Spec => [](BothLesc => AuthenticatedByUsers))
<1> SUFFICES ASSUME PairingAssumption PROVE Spec => [](BothLesc => AuthenticatedByUsers)
  OBVIOUS
<1>1. Inv /\ (BothLesc => LescInv) => (BothLesc => AuthenticatedByUsers)
  <2> SUFFICES ASSUME Good, NEW p \in Peers, NEW e \in bonds[p], e.auth
               PROVE  \E k \in Passkeys \cup {0} : {<<q, e.id, k>> : q \in Peers} \subseteq consent
    BY DEF Good, AuthenticatedByUsers
  <2>1. Auth(par) /\ BothDid(e.id, consent, par)
    BY Known, TwoPeers DEF Lesc, BondsOK, StoredOK
  <2>2. PICK k \in Passkeys \cup {0} : <<C, e.id, k>> \in consent /\ <<P, e.id, k>> \in consent
    BY <2>1 DEF BothDid, Pins
  <2> QED
    BY <2>2, TwoPeers
<1> QED
  BY <1>1, SpecLesc, PTL

-----------------------------------------------------------------------------
(* Legacy pairings of one application: what a step may use                 *)

Tame == PairingAssumption /\ Inv /\ OneAsks /\ LegacyInv

LEMMA TameMoment ==
  ASSUME Tame
  PROVE  /\ Moment(sm[C], sm[P], net[C], net[P], key, session, consent, par)
         /\ Kept(C, P, bonds, consent, par) /\ Kept(P, C, bonds, consent, par)
         /\ Listening(sm[C], sm[P], net[C], net[P], app)
         /\ Alone(C) => OnlyCentralAsks(sm[C], app)
         /\ Alone(P) => OnlyPeripheralAsks(sm[C], sm[P], net[C], net[P], app)
         /\ Alone(C) \/ Alone(P)
  BY TwoPeers DEF Tame, LegacyInv, Legacy, OneAsks

LEMMA TameTypes ==
  ASSUME Tame
  PROVE  /\ requests \in Nat
         /\ DOMAIN key = Peers /\ DOMAIN session = Peers /\ DOMAIN app = Peers
         /\ DOMAIN sm = Peers /\ DOMAIN net = Peers /\ DOMAIN bonds = Peers
         /\ \A q \in Peers : DOMAIN sm[q] = Fields
         /\ \A q \in Peers : DOMAIN sm[q].got = {"ltk", "ediv", "irk", "address", "csrk"}
         /\ \A q \in Peers : \E S : net[q] \in Seq(S)
         /\ sm[C].state # "idle" => sm[C].initiator
         /\ sm[P].state # "idle" => ~sm[P].initiator
<1>1. Sides /\ DOMAIN key = Peers /\ DOMAIN session = Peers /\ DOMAIN app = Peers
  BY DEF Tame, Inv, LegacyInv
<1>2. C = "central" /\ P # "central"
  BY DEF C, P
<1>3. \A q \in Peers : SideOK(q, sm[q], requests) /\ Sent(q, net[q], requests)
  BY <1>1 DEF Sides
<1>4. requests \in Nat /\ DOMAIN sm = Peers /\ DOMAIN net = Peers /\ DOMAIN bonds = Peers
  BY <1>1 DEF Sides
<1> HIDE DEF NoParameters
<1> QED
  BY <1>1, <1>2, <1>3, <1>4, TwoPeers DEF SideOK, Sent

LEMMA TameMethod ==
  ASSUME Tame
  PROVE  /\ ~Chosen(par).lesc
         /\ Auth(par) <=> Chosen(par).kind = "passkey"
<1>1. ~BothLesc
  BY DEF Tame, OneAsks
<1>2. ~(par[C].lesc /\ par[P].lesc)
  BY <1>1, TwoPeers DEF BothLesc
<1>3. ~Chosen(par).lesc /\ Chosen(par).kind # "numcomp"
  BY <1>2 DEF Chosen, Method, IoMethod
<1> QED
  BY <1>3 DEF Auth, Authenticated

LEMMA Spoken == \A t, v : Pdu(t, v).t = t /\ Pdu(t, v).v = v /\ Notice(t).t = t
  BY DEF Pdu, Notice

LEMMA ShortQueues ==
  /\ \A x : <<x>> # <<>> /\ Head(<<x>>) = x /\ Tail(<<x>>) = <<>>
  /\ \A x, y : <<x, y>> # <<>> /\ Head(<<x, y>>) = x /\ Tail(<<x, y>>) = <<y>>
  OBVIOUS

\* A handler of side q takes a PDU and sends `out`.
LEMMA TameHandles ==
  ASSUME Tame, NEW q \in Peers, NEW r \in Peers, r # q, net[q] # <<>>,
         NEW s, NEW out, Handle(q, s, out)
  PROVE  /\ sm'[q] = s /\ sm'[r] = sm[r]
         /\ net'[q] = Tail(net[q]) /\ net'[r] = net[r] \o out
         /\ net[r] = <<>> /\ (\E S : out \in Seq(S)) => net'[r] = out
<1>1. r = Other(q)
  BY TwoPeers
<1>2. /\ sm'[q] = s /\ sm'[r] = sm[r]
      /\ net'[q] = Tail(net[q]) /\ net'[r] = net[r] \o out
  BY <1>1, TameTypes DEF Handle
<1>3. ASSUME net[r] = <<>>, NEW S, out \in Seq(S)
      PROVE  net[r] \o out = out
  BY <1>3, ConcatEmptySeq
<1> QED
  BY <1>2, <1>3

LEMMA SomeQueues ==
  /\ \E S : <<>> \in Seq(S)
  /\ \A x : \E S : <<x>> \in Seq(S)
  /\ \A x, y : \E S : <<x, y>> \in Seq(S)
<1>1. <<>> \in Seq({})
  OBVIOUS
<1>2. \A x : <<x>> \in Seq({x})
  OBVIOUS
<1>3. \A x, y : <<x, y>> \in Seq({x, y})
  OBVIOUS
<1> QED
  BY <1>1, <1>2, <1>3

\* Sides that speak in turn: what one sends is all that is on its way.
LEMMA CentralSaysAll ==
  ASSUME Tame, net[C] # <<>>, net[P] = <<>>, NEW s, NEW out, Handle(C, s, out),
         \E S : out \in Seq(S)
  PROVE  sm'[C] = s /\ sm'[P] = sm[P] /\ net'[C] = Tail(net[C]) /\ net'[P] = out
  BY TwoPeers, TameHandles

LEMMA PeripheralSaysAll ==
  ASSUME Tame, net[P] # <<>>, net[C] = <<>>, NEW s, NEW out, Handle(P, s, out),
         \E S : out \in Seq(S)
  PROVE  sm'[P] = s /\ sm'[C] = sm[C] /\ net'[P] = Tail(net[P]) /\ net'[C] = out
  BY TwoPeers, TameHandles

LEMMA CentralSpeaks ==
  ASSUME Tame, net[C] # <<>>, net[P] = <<>>, NEW s, NEW out, Handle(C, s, out),
         (out = <<>>) \/ (\E x : out = <<x>>) \/ (\E x, y : out = <<x, y>>)
  PROVE  sm'[C] = s /\ sm'[P] = sm[P] /\ net'[C] = Tail(net[C]) /\ net'[P] = out
<1>1. \E S : out \in Seq(S)
  BY SomeQueues
<1> QED
  BY <1>1, CentralSaysAll

LEMMA PeripheralSpeaks ==
  ASSUME Tame, net[P] # <<>>, net[C] = <<>>, NEW s, NEW out, Handle(P, s, out),
         (out = <<>>) \/ (\E x : out = <<x>>) \/ (\E x, y : out = <<x, y>>)
  PROVE  sm'[P] = s /\ sm'[C] = sm[C] /\ net'[P] = Tail(net[P]) /\ net'[C] = out
<1>1. \E S : out \in Seq(S)
  BY SomeQueues
<1> QED
  BY <1>1, PeripheralSaysAll

-----------------------------------------------------------------------------
(* Keys on their way                                                       *)

LEMMA CarrierTypes ==
  \A q, i : \A x \in Carriers(q, i) :
    /\ x.t \in KeyTypes
    /\ x.t = "encryption_information" => x.v = <<"ltk", q, i>>
    /\ x.t = "identity_information" => x.v = <<"irk", q, i>>
    /\ x.t = "signing_information" => x.v = <<"csrk", q, i>>
  BY Spoken DEF Carriers, KeyTypes

\* The first of the keys owed.
LEMMA OwedHead ==
  ASSUME NEW s, NEW q, NEW i, NEW g, NEW o, Owed(s, q, i, g, o), s # <<>>
  PROVE  /\ Head(s) \in Carriers(q, i) /\ Head(s).t \in Due(o[q].keys) \ Brought(g)
         /\ \A h : Brought(h) = Brought(g) \cup {Head(s).t} => Owed(Tail(s), q, i, h, o)
<1> DEFINE K == Carriers(q, i)
           r == Tail(s)
<1>1. /\ s \in Seq(K) /\ Types(s) = Due(o[q].keys) \ Brought(g)
      /\ \A j, h \in 1..Len(s) : j # h => s[j].t # s[h].t
  BY DEF Owed
<1> HIDE DEF K
<1>2. /\ r \in Seq(K) /\ Len(s) \in Nat /\ Len(r) \in Nat /\ Len(s) = Len(r) + 1
      /\ \A j \in 1..Len(r) : r[j] = s[j + 1]
      /\ Head(s) = s[1] /\ s[1] \in K
  BY <1>1, HeadTailProperties, LenProperties, ElementOfSeq, EmptySeq
<1> HIDE DEF r
<1>3. Types(s) = Types(r) \cup {s[1].t}
  <2>1. \A j \in 1..Len(s) : j = 1 \/ (j - 1 \in 1..Len(r) /\ s[j] = r[j - 1])
    BY <1>2
  <2>2. 1 \in 1..Len(s) /\ \A j \in 1..Len(r) : j + 1 \in 1..Len(s)
    BY <1>2
  <2> QED
    BY <1>2, <2>1, <2>2 DEF Types
<1>4. s[1].t \notin Types(r)
  <2>1. \A j \in 1..Len(r) : s[j + 1].t # s[1].t
    BY <1>1, <1>2
  <2> QED
    BY <1>2, <2>1 DEF Types
<1>5. \A j, h \in 1..Len(r) : j # h => r[j].t # r[h].t
  <2>1. \A j \in 1..Len(r) : j + 1 \in 1..Len(s)
    BY <1>2
  <2>2. \A j, h \in 1..Len(r) : j # h => s[j + 1].t # s[h + 1].t
    BY <1>1, <1>2, <2>1
  <2> QED
    BY <1>2, <2>2
<1>6. ASSUME NEW h, Brought(h) = Brought(g) \cup {s[1].t}
      PROVE  Owed(r, q, i, h, o)
  BY <1>1, <1>2, <1>3, <1>4, <1>5, <1>6 DEF Owed, K
<1> QED
  BY <1>1, <1>2, <1>3, <1>6 DEF K, r

\* A side has got all the keys of the other when none is owed to it.
LEMMA CompleteWhen ==
  ASSUME NEW s
  PROVE  Complete(s) <=> Due(PeerKeys(s)) \subseteq Brought(s.got)
  BY DEF Complete, Due, Brought

LEMMA OwedNothing ==
  ASSUME NEW s, NEW q, NEW i, NEW g, NEW o, Owed(s, q, i, g, o)
  PROVE  s = <<>> <=> Due(o[q].keys) \subseteq Brought(g)
<1>1. s \in Seq(Carriers(q, i)) /\ Types(s) = Due(o[q].keys) \ Brought(g)
  BY DEF Owed
<1>2. s = <<>> <=> Len(s) = 0
  BY <1>1, EmptySeq
<1>3. Len(s) = 0 <=> Types(s) = {}
  <2>1. Len(s) \in Nat
    BY <1>1, LenProperties
  <2>2. CASE Len(s) = 0
    <3>1. 1..Len(s) = {}
      BY <2>2
    <3> QED
      BY <2>2, <3>1 DEF Types
  <2>3. CASE Len(s) # 0
    <3>1. 1 \in 1..Len(s)
      BY <2>1, <2>3
    <3>2. s[1].t \in Types(s)
      BY <3>1 DEF Types
    <3> QED
      BY <2>3, <3>2
  <2> QED
    BY <2>2, <2>3
<1> QED
  BY <1>1, <1>2, <1>3

\* The PDUs of z are in S, each of another type, and D is the set of the types.
Carries(S, z, D) ==
  /\ z \in Seq(S) /\ Types(z) = D
  /\ \A j, h \in 1..Len(z) : j # h => z[j].t # z[h].t

LEMMA CarriesBoth ==
  ASSUME NEW S, NEW u, NEW v, NEW D, NEW F, D \cap F = {}, Carries(S, u, D), Carries(S, v, F)
  PROVE  Carries(S, u \o v, D \cup F)
<1> DEFINE w == u \o v
           m == Len(u)
           n == Len(v)
<1>1. /\ w \in Seq(S) /\ Len(w) = m + n /\ m \in Nat /\ n \in Nat
      /\ \A j \in 1..(m + n) : w[j] = IF j <= m THEN u[j] ELSE v[j - m]
  BY ConcatProperties, LenProperties DEF Carries
<1> HIDE DEF w, m, n
<1>2. ASSUME NEW j \in 1..(m + n)
      PROVE  \/ j \in 1..m /\ w[j] = u[j] /\ w[j].t \in D
             \/ j - m \in 1..n /\ w[j] = v[j - m] /\ w[j].t \in F
  <2>1. CASE j <= m
    <3>1. j \in 1..m /\ w[j] = u[j]
      BY <1>1, <2>1
    <3> QED
      BY <3>1 DEF Types, Carries, m
  <2>2. CASE ~(j <= m)
    <3>1. j - m \in 1..n /\ w[j] = v[j - m]
      BY <1>1, <2>2
    <3> QED
      BY <3>1 DEF Types, Carries, n
  <2> QED
    BY <2>1, <2>2
<1>3. ASSUME NEW j \in 1..m
      PROVE  j \in 1..(m + n) /\ w[j] = u[j]
  BY <1>1
<1>4. ASSUME NEW j \in 1..n
      PROVE  j + m \in 1..(m + n) /\ w[j + m] = v[j]
  <2>1. j + m \in 1..(m + n) /\ ~(j + m <= m) /\ (j + m) - m = j
    BY <1>1
  <2> QED
    BY <1>1, <2>1
<1>5. Types(w) = D \cup F
  <2>1. Types(w) = {w[j].t : j \in 1..(m + n)} /\ D = {u[j].t : j \in 1..m}
        /\ F = {v[j].t : j \in 1..n}
    BY <1>1 DEF Types, Carries, m, n
  <2>2. \A x \in D : x \in Types(w)
    BY <1>3, <2>1
  <2>3. \A x \in F : x \in Types(w)
    BY <1>4, <2>1
  <2>4. \A x \in Types(w) : x \in D \cup F
    BY <1>2, <2>1
  <2> QED
    BY <2>2, <2>3, <2>4
<1>6. ASSUME NEW j \in 1..(m + n), NEW h \in 1..(m + n), j # h
      PROVE  w[j].t # w[h].t
  <2>1. \A x \in D : x \notin F
    OBVIOUS
  <2>2. CASE j \in 1..m /\ h \in 1..m /\ w[j] = u[j] /\ w[h] = u[h]
    BY <1>6, <2>2 DEF m, Carries
  <2>3. CASE j - m \in 1..n /\ h - m \in 1..n /\ w[j] = v[j - m] /\ w[h] = v[h - m]
    <3>1. j - m # h - m
      BY <1>1, <1>6
    <3> QED
      BY <2>3, <3>1 DEF n, Carries
  <2> QED
    BY <1>2, <2>1, <2>2, <2>3
<1> QED
  BY <1>1, <1>5, <1>6 DEF w, Carries

\* All that side q sends of the keys it generates in legacy pairing.
LEMMA KeyPdusOwed ==
  ASSUME NEW q \in Peers, NEW s, DOMAIN s = Fields, s.ltk = None, NEW o,
         OwnKeys(s) = o[q].keys, NEW g, g = NoKeys
  PROVE  Owed(KeyPdus(q, s), q, s.id, g, o)
<1> DEFINE K == o[q].keys
           i == s.id
           x1 == Pdu("encryption_information", <<"ltk", q, i>>)
           x2 == Notice("master_identification")
           x3 == Pdu("identity_information", <<"irk", q, i>>)
           x4 == Notice("identity_address")
           x5 == Pdu("signing_information", <<"csrk", q, i>>)
<1>1. KeyPdus(q, s) = (IF "enc" \in K THEN <<x1, x2>> ELSE <<>>)
                        \o (IF "id" \in K THEN <<x3, x4>> ELSE <<>>)
                        \o (IF "sign" \in K THEN <<x5>> ELSE <<>>)
  BY DEF KeyPdus, WithOwnKeys, Fields
<1>2. Brought(g) = {}
  BY DEF NoKeys, Brought
<1>3. /\ x1.t = "encryption_information" /\ x2.t = "master_identification"
      /\ x3.t = "identity_information" /\ x4.t = "identity_address"
      /\ x5.t = "signing_information" /\ {x1, x2, x3, x4, x5} = Carriers(q, i)
  BY Spoken DEF Carriers
<1> HIDE DEF x1, x2, x3, x4, x5, K
<1> DEFINE e == IF "enc" \in K THEN <<x1, x2>> ELSE <<>>
           d == IF "id" \in K THEN <<x3, x4>> ELSE <<>>
           f == IF "sign" \in K THEN <<x5>> ELSE <<>>
           T(z, D) == Carries(Carriers(q, i), z, D)
           D1 == IF "enc" \in K THEN {"encryption_information", "master_identification"} ELSE {}
           D2 == IF "id" \in K THEN {"identity_information", "identity_address"} ELSE {}
           D3 == IF "sign" \in K THEN {"signing_information"} ELSE {}
<1>4. T(<<>>, {})
  <2>1. <<>> \in Seq(Carriers(q, i)) /\ Len(<<>>) = 0 /\ 1..0 = {}
    OBVIOUS
  <2> QED
    BY <2>1 DEF Types, Carries
<1>5. ASSUME NEW x \in Carriers(q, i)
      PROVE  T(<<x>>, {x.t})
  <2>1. <<x>> \in Seq(Carriers(q, i)) /\ Len(<<x>>) = 1 /\ <<x>>[1] = x /\ 1..1 = {1}
    OBVIOUS
  <2> QED
    BY <2>1 DEF Types, Carries
<1>6. ASSUME NEW x \in Carriers(q, i), NEW y \in Carriers(q, i), x.t # y.t
      PROVE  T(<<x, y>>, {x.t, y.t})
  <2>1. /\ <<x, y>> \in Seq(Carriers(q, i)) /\ Len(<<x, y>>) = 2
        /\ <<x, y>>[1] = x /\ <<x, y>>[2] = y /\ 1..2 = {1, 2}
    OBVIOUS
  <2> QED
    BY <1>6, <2>1 DEF Types, Carries
<1>7. ASSUME NEW u, NEW v, NEW D, NEW F, T(u, D), T(v, F), D \cap F = {}
      PROVE  T(u \o v, D \cup F)
  BY <1>7, CarriesBoth
<1>8. T(e, D1) /\ T(d, D2) /\ T(f, D3)
  <2>1. T(<<x1, x2>>, {x1.t, x2.t}) /\ T(<<x3, x4>>, {x3.t, x4.t}) /\ T(<<x5>>, {x5.t})
    BY <1>3, <1>5, <1>6
  <2> HIDE DEF T
  <2> QED
    BY <1>3, <1>4, <2>1
<1>9. D1 \cap D2 = {} /\ (D1 \cup D2) \cap D3 = {}
  OBVIOUS
<1> HIDE DEF T, e, d, f, D1, D2, D3
<1>10. T(e \o d, D1 \cup D2)
  BY <1>7, <1>8, <1>9
<1>11. T((e \o d) \o f, (D1 \cup D2) \cup D3)
  BY <1>7, <1>8, <1>9, <1>10
<1>12. T(KeyPdus(q, s), Due(K))
  BY <1>1, <1>11 DEF Due, e, d, f, D1, D2, D3
<1> QED
  BY <1>2, <1>12 DEF Owed, Carries, T, K

-----------------------------------------------------------------------------
(* What each side hears, and in which moment                               *)

LEMMA FrontAppend ==
  ASSUME NEW S, NEW s \in Seq(S), NEW x
  PROVE  LET b == Append(s, x) IN
         b # <<>> /\ b[Len(b)] = x /\ SubSeq(b, 1, Len(b) - 1) = s
<1> DEFINE b == Append(s, x)
           r == SubSeq(b, 1, Len(b) - 1)
           T == S \cup {x}
<1>1. s \in Seq(T) /\ x \in T
  OBVIOUS
<1> HIDE DEF T
<1>2. /\ b # <<>> /\ Len(b) = Len(s) + 1 /\ Len(s) \in Nat /\ b[Len(s) + 1] = x
      /\ \A i \in 1..Len(s) : b[i] = s[i]
  BY <1>1, AppendProperties, LenProperties
<1> HIDE DEF b
<1>3. \A i \in 1..(Len(b) - 1) : b[i] \in T
  <2>1. \A i \in 1..Len(s) : s[i] \in T
    BY <1>1
  <2> QED
    BY <1>2, <2>1
<1>4. 1 \in Int /\ Len(b) - 1 \in Int /\ Len(b) - 1 = Len(s)
  BY <1>2
<1>5. /\ r \in Seq(T) /\ Len(r) = Len(s) /\ \A i \in 1..Len(s) : r[i] = s[i]
  <2>1. /\ r \in Seq(T) /\ Len(r) = IF 1 <= Len(b) - 1 THEN (Len(b) - 1) - 1 + 1 ELSE 0
        /\ \A i \in 1..((Len(b) - 1) - 1 + 1) : r[i] = b[1 + i - 1]
    BY <1>3, <1>4, SubSeqProperties
  <2>2. Len(r) = Len(s)
    BY <1>2, <1>4, <2>1
  <2>3. ASSUME NEW i \in 1..Len(s) PROVE r[i] = s[i]
    <3>1. i \in 1..((Len(b) - 1) - 1 + 1) /\ 1 + i - 1 = i
      BY <1>2, <1>4
    <3> QED
      BY <1>2, <2>1, <3>1
  <2> QED
    BY <2>1, <2>2, <2>3
<1> HIDE DEF r
<1>6. r = s
  BY <1>1, <1>5
<1> QED
  BY <1>2, <1>6 DEF b, r

LEMMA RequestingAfter ==
  ASSUME NEW c, NEW p, NEW a, NEW b, NEW z, NEW u, NEW o, NEW S, b \in Seq(S),
         Requesting(c, p, a, b, z, u, o)
  PROVE  \E s : /\ \E T : s \in Seq(T)
                /\ b = Append(s, Pdu("pairing_request", [id |-> c.id, par |-> o[C]]))
                /\ Apart(p, s, z, u, o)
<1>1. b # <<>> /\ b[Len(b)] = Pdu("pairing_request", [id |-> c.id, par |-> o[C]])
      /\ Apart(p, SubSeq(b, 1, Len(b) - 1), z, u, o)
  BY DEF Requesting
<1>2. PICK s \in Seq(S), x \in S : b = Append(s, x)
  BY <1>1, SequenceEmptyOrAppend
<1>3. b[Len(b)] = x /\ SubSeq(b, 1, Len(b) - 1) = s
  BY <1>2, FrontAppend
<1> QED
  BY <1>1, <1>2, <1>3

LEMMA RequestingOf ==
  ASSUME NEW c, NEW p, NEW s, NEW z, NEW u, NEW o, NEW S, s \in Seq(S),
         Initiating(c, o), Apart(p, s, z, u, o)
  PROVE  Requesting(c, p, <<>>,
                    Append(s, Pdu("pairing_request", [id |-> c.id, par |-> o[C]])), z, u, o)
<1> DEFINE x == Pdu("pairing_request", [id |-> c.id, par |-> o[C]])
           b == Append(s, x)
<1>1. b # <<>> /\ b[Len(b)] = x /\ SubSeq(b, 1, Len(b) - 1) = s
  BY FrontAppend
<1> HIDE DEF b
<1> QED
  BY <1>1 DEF Requesting, b

\* The keys of the central come before its next request.
LEMMA RequestHead ==
  ASSUME NEW p, NEW s, NEW z, NEW u, NEW o, NEW S, s \in Seq(S), Apart(p, s, z, u, o), NEW x
  PROVE  /\ s = <<>> => Head(Append(s, x)) = x /\ Tail(Append(s, x)) = <<>>
         /\ s # <<>> => /\ Head(Append(s, x)) = Head(s) /\ Tail(Append(s, x)) = Append(Tail(s), x)
                        /\ Head(s) \in Carriers(C, p.id)
<1>1. s # <<>> => Head(s) \in Carriers(C, p.id)
  BY OwedHead DEF Apart
<1> QED
  BY <1>1, HeadTailAppend

LEMMA CentralHears ==
  ASSUME Tame, net[C] # <<>>
  PROVE  LET t == Head(net[C]).t
             c == sm[C]
             p == sm[P]
             a == net[C]
             b == net[P] IN
         \/ t = "security_request" /\ Asking(c, p, a, b)
         \/ t = "failed" /\ Failing(c, p, a, b)
         \/ t = "pairing_response" /\ Responding(c, p, a, b, consent, par)
         \/ t = "confirm" /\ Together(c, p, consent, par) /\ Confirming(c, p, a, b)
         \/ t = "random" /\ Together(c, p, consent, par) /\ Accepting(c, p, a, b, key)
         \/ /\ t \in {"enc_rsp", "start_enc_req"} /\ Together(c, p, consent, par)
            /\ Encrypting(c, p, a, b, key, session, consent, par)
         \/ t \in {"start_enc_rsp"} \cup KeyTypes /\ Distributing(c, p, a, b, session, consent, par)
<1> DEFINE t == Head(net[C]).t
           c == sm[C]
           p == sm[P]
           a == net[C]
           b == net[P]
<1>1. CASE Distributing(c, p, a, b, session, consent, par)
  <2>1. CASE Head(a) = Notice("start_enc_rsp")
    BY <1>1, <2>1, Spoken
  <2>2. CASE Owed(a, P, c.id, c.got, par)
    BY <1>1, <2>2, OwedHead, CarrierTypes
  <2> QED
    BY <1>1, <2>1, <2>2 DEF Distributing
<1>2. CASE Failing(c, p, a, b)
  BY <1>2, ShortQueues, Spoken DEF Failing
<1>3. CASE Asking(c, p, a, b)
  BY <1>3, ShortQueues, Spoken DEF Asking
<1>4. CASE Responding(c, p, a, b, consent, par)
  BY <1>4, ShortQueues, Spoken DEF Responding
<1>5. CASE Together(c, p, consent, par) /\ Confirming(c, p, a, b)
  BY <1>5, ShortQueues, Spoken DEF Confirming
<1>6. CASE Together(c, p, consent, par) /\ Accepting(c, p, a, b, key)
  BY <1>6, ShortQueues, Spoken DEF Accepting
<1>7. CASE Together(c, p, consent, par) /\ Encrypting(c, p, a, b, key, session, consent, par)
  <2>1. \/ a = <<Notice("enc_rsp"), Notice("start_enc_req")>>
        \/ a = <<Notice("start_enc_req")>>
    BY <1>7 DEF Encrypting
  <2> QED
    BY <1>7, <2>1, ShortQueues, Spoken
<1>8. a # <<>>
  OBVIOUS
<1> HIDE DEF a, b, c, p, t
<1> QED
  BY <1>1, <1>2, <1>3, <1>4, <1>5, <1>6, <1>7, <1>8, TameMoment
     DEF a, b, c, p, t, Moment, Rest, Refusing, Requesting, Committing, Revealing

LEMMA PeripheralHears ==
  ASSUME Tame, net[P] # <<>>
  PROVE  LET t == Head(net[P]).t
             c == sm[C]
             p == sm[P]
             a == net[C]
             b == net[P] IN
         \/ t = "failed" /\ Refusing(c, p, a, b)
         \/ /\ t = "pairing_request" /\ Requesting(c, p, a, b, session, consent, par)
            /\ b = <<Pdu("pairing_request", [id |-> c.id, par |-> par[C]])>>
            /\ Apart(p, <<>>, session, consent, par)
         \/ t \in KeyTypes /\ Rest(c, p, a, b, session, consent, par)
         \/ t \in KeyTypes /\ Requesting(c, p, a, b, session, consent, par)
         \/ t = "confirm" /\ Together(c, p, consent, par) /\ Committing(c, p, a, b)
         \/ t = "random" /\ Together(c, p, consent, par) /\ Revealing(c, p, a, b)
         \/ /\ t \in {"enc_req", "start_enc_rsp"} /\ Together(c, p, consent, par)
            /\ Encrypting(c, p, a, b, key, session, consent, par)
<1> DEFINE t == Head(net[P]).t
           c == sm[C]
           p == sm[P]
           a == net[C]
           b == net[P]
<1>1. CASE Requesting(c, p, a, b, session, consent, par)
  <2> DEFINE x == Pdu("pairing_request", [id |-> c.id, par |-> par[C]])
  <2>1. PICK s : /\ \E T : s \in Seq(T)
                 /\ b = Append(s, x) /\ Apart(p, s, session, consent, par)
    <3>1. PICK S : b \in Seq(S)
      BY TwoPeers, TameTypes
    <3> HIDE DEF b, c, p
    <3> QED
      BY <1>1, <3>1, RequestingAfter
  <2>2. x.t = "pairing_request"
    BY Spoken
  <2> HIDE DEF x
  <2>3. CASE s = <<>>
    <3>1. Append(<<>>, x) = <<x>>
      OBVIOUS
    <3>2. b = <<x>> /\ Head(b) = x
      BY <2>1, <2>3, <3>1
    <3> QED
      BY <1>1, <2>1, <2>2, <2>3, <3>2 DEF x
  <2>4. CASE s # <<>>
    <3>1. Head(b) \in Carriers(C, p.id)
      BY <2>1, <2>4, RequestHead
    <3> QED
      BY <1>1, <3>1, CarrierTypes
  <2> QED
    BY <2>3, <2>4
<1>2. CASE Rest(c, p, a, b, session, consent, par)
  <2>1. Owed(b, C, p.id, p.got, par)
    BY <1>2 DEF Rest, Apart
  <2> QED
    BY <1>2, <2>1, OwedHead, CarrierTypes
<1>3. CASE Refusing(c, p, a, b)
  BY <1>3, ShortQueues, Spoken DEF Refusing
<1>4. CASE Together(c, p, consent, par) /\ Committing(c, p, a, b)
  BY <1>4, ShortQueues, Spoken DEF Committing
<1>5. CASE Together(c, p, consent, par) /\ Revealing(c, p, a, b)
  BY <1>5, ShortQueues, Spoken DEF Revealing
<1>6. CASE Together(c, p, consent, par) /\ Encrypting(c, p, a, b, key, session, consent, par)
  <2>1. b = <<Notice("enc_req")>> \/ b = <<Notice("start_enc_rsp")>>
    BY <1>6 DEF Encrypting
  <2> QED
    BY <1>6, <2>1, ShortQueues, Spoken
<1>7. b # <<>>
  OBVIOUS
<1> HIDE DEF a, b, c, p, t
<1> QED
  BY <1>1, <1>2, <1>3, <1>4, <1>5, <1>6, <1>7, TameMoment
     DEF a, b, c, p, t, Moment, Asking, Failing, Responding, Confirming, Accepting, Distributing

-----------------------------------------------------------------------------
(* What a step must show                                                   *)

LEMMA LegacyCloses ==
  ASSUME Tame, UNCHANGED <<scenario, app>>, DOMAIN key' = Peers, DOMAIN session' = Peers,
         Moment(sm'[C], sm'[P], net'[C], net'[P], key', session', consent', par),
         Kept(C, P, bonds', consent', par), Kept(P, C, bonds', consent', par),
         Listening(sm'[C], sm'[P], net'[C], net'[P], app),
         Alone(C) => OnlyCentralAsks(sm'[C], app),
         Alone(P) => OnlyPeripheralAsks(sm'[C], sm'[P], net'[C], net'[P], app)
  PROVE  LegacyInv'
<1>1. par' = par /\ app' = app /\ (Alone(C)' <=> Alone(C)) /\ (Alone(P)' <=> Alone(P))
  BY DEF par, Alone
<1>2. DOMAIN app' = Peers
  BY <1>1, TameTypes
<1> QED
  BY <1>1, <1>2 DEF LegacyInv, Legacy

\* A PDU of a pairing has been taken, by a side that goes on.
LEMMA TalkGoesOn ==
  ASSUME Tame, sm[C].state \notin Resting, net[C] = <<>> \/ Head(net[C]).t # "failed",
         NEW c, NEW p, NEW a, NEW b, c.state # "idle", c.failed => sm[C].failed,
         p.failed => sm[P].failed, p.state # "done",
         c.state = "pairing_rsp" => p.state \in {"idle", "pairing_req"},
         a = <<>> \/ Head(a).t \notin {"security_request", "failed"}
  PROVE  /\ Listening(c, p, a, b, app)
         /\ Alone(C) => OnlyCentralAsks(c, app)
         /\ Alone(P) => OnlyPeripheralAsks(c, p, a, b, app)
<1>1. /\ Head(<<Notice("security_request")>>).t = "security_request"
      /\ Head(<<Notice("failed")>>).t = "failed"
      /\ Head(<<Notice("failed"), Notice("security_request")>>).t = "failed"
      /\ <<Notice("security_request")>> # <<>> /\ <<Notice("failed")>> # <<>>
      /\ <<Notice("failed"), Notice("security_request")>> # <<>>
  BY ShortQueues, Spoken
<1>2. Listening(c, p, a, b, app)
  BY <1>1 DEF Listening, Asking, Refusing
<1>3. ASSUME Alone(C)
      PROVE  OnlyCentralAsks(c, app)
  BY <1>3, TameMoment DEF OnlyCentralAsks, Resting
<1>4. ASSUME Alone(P)
      PROVE  OnlyPeripheralAsks(c, p, a, b, app)
  <2>1. ~Free(sm[C], sm[P], net[C], net[P])
    BY <1>1 DEF Free
  <2> QED
    BY <1>4, <2>1, TameMoment DEF OnlyPeripheralAsks
<1> QED
  BY <1>2, <1>3, <1>4

\* What the users did stays done.
LEMMA StillDid ==
  ASSUME NEW u, NEW w, u \subseteq w
  PROVE  /\ \A i, o : BothDid(i, u, o) => BothDid(i, w, o)
         /\ \A s, q, o : Entered(s, q, u, o) => Entered(s, q, w, o)
         /\ \A q, r, d, o : Kept(q, r, d, u, o) => Kept(q, r, d, w, o)
         /\ \A p, b, z, o : Apart(p, b, z, u, o) => Apart(p, b, z, w, o)
<1>1. \A i, o : BothDid(i, u, o) => BothDid(i, w, o)
  BY DEF BothDid
<1>2. \A s, q, o : Entered(s, q, u, o) => Entered(s, q, w, o)
  BY DEF Entered
<1>3. \A q, r, d, o : Kept(q, r, d, u, o) => Kept(q, r, d, w, o)
  BY <1>1 DEF Kept
<1>4. \A p, b, z, o : Apart(p, b, z, u, o) => Apart(p, b, z, w, o)
  BY <1>1 DEF Apart
<1> QED
  BY <1>1, <1>2, <1>3, <1>4

\* A talk that goes on, in which nobody stores anything.
LEMMA TalkCloses ==
  ASSUME Tame, UNCHANGED <<scenario, app, bonds>>, consent \subseteq consent',
         DOMAIN key' = Peers, DOMAIN session' = Peers,
         sm[C].state \notin Resting, net[C] = <<>> \/ Head(net[C]).t # "failed",
         sm'[C].state # "idle", sm'[C].failed => sm[C].failed,
         sm'[P].failed => sm[P].failed, sm'[P].state # "done",
         sm'[C].state = "pairing_rsp" => sm'[P].state \in {"idle", "pairing_req"},
         net'[C] = <<>> \/ Head(net'[C]).t \notin {"security_request", "failed"},
         Moment(sm'[C], sm'[P], net'[C], net'[P], key', session', consent', par)
  PROVE  LegacyInv'
<1>1. /\ Listening(sm'[C], sm'[P], net'[C], net'[P], app)
      /\ Alone(C) => OnlyCentralAsks(sm'[C], app)
      /\ Alone(P) => OnlyPeripheralAsks(sm'[C], sm'[P], net'[C], net'[P], app)
  BY TalkGoesOn
<1>2. Kept(C, P, bonds', consent', par) /\ Kept(P, C, bonds', consent', par)
  BY TameMoment, StillDid
<1> QED
  BY <1>1, <1>2, LegacyCloses

\* A side that starts again, or gives up, has nothing left.
LEMMA Cleared ==
  ASSUME NEW s
  PROVE  /\ Reset(s).state = "idle" /\ ~Reset(s).failed
         /\ Failed(s).state = "idle" /\ Failed(s).failed
         /\ DOMAIN Reset(s) = Fields
         /\ Ungenerated(Reset(s)) /\ Reset(s).got = NoKeys
  BY DEF Reset, Failed, Fresh, Fields, Ungenerated

LEMMA RestingStates == \A x : x \in Resting <=> x = "idle" \/ x = "done"
  BY DEF Resting

\* The peripheral gives up a pairing in progress: the central will learn it.
LEMMA PeripheralFails ==
  ASSUME Tame, Refuse(P), Only_sm_net, net[C] = <<>>, net[P] # <<>>, Tail(net[P]) = <<>>,
         sm[C].state \in {"pairing_rsp", "legacy_random_sent"}
  PROVE  LegacyInv'
<1>1. /\ sm'[P] = Failed(sm[P]) /\ sm'[C] = sm[C]
      /\ net'[P] = <<>> /\ net'[C] = <<Notice("failed")>>
  BY PeripheralSpeaks DEF Refuse
<1>2. UNCHANGED <<scenario, app, key, session, consent, bonds>>
  BY DEF Only_sm_net, link, threads, ghosts
<1>3. sm'[P].state = "idle"
  BY <1>1, Cleared
<1>4. Failing(sm'[C], sm'[P], net'[C], net'[P])
  BY <1>1, <1>3 DEF Failing
<1>5. /\ Head(net'[C]).t = "failed" /\ net'[C] # <<>>
      /\ net'[C] # <<Notice("failed"), Notice("security_request")>>
  <2>1. Tail(net'[C]) # Tail(<<Notice("failed"), Notice("security_request")>>)
    BY <1>1, ShortQueues
  <2> QED
    BY <1>1, <2>1, ShortQueues, Spoken
<1>6. Listening(sm'[C], sm'[P], net'[C], net'[P], app)
  BY <1>1, <1>5, ShortQueues, Spoken DEF Listening, Asking, Refusing
<1>7. Alone(C) => OnlyCentralAsks(sm'[C], app)
  BY <1>1, TameMoment
<1>8. Alone(P) => OnlyPeripheralAsks(sm'[C], sm'[P], net'[C], net'[P], app)
  BY <1>1, <1>3, RestingStates, TameMoment DEF OnlyPeripheralAsks, Free
<1>9. DOMAIN key' = Peers /\ DOMAIN session' = Peers
  BY <1>2, TameTypes
<1> QED
  BY <1>2, <1>4, <1>6, <1>7, <1>8, <1>9, TameMoment, LegacyCloses DEF Moment

-----------------------------------------------------------------------------
(* Feature exchange                                                        *)

LEMMA SecurityRequestLegacy ==
  ASSUME Tame, NEW q \in Peers, OnSecurityRequest(q)
  PROVE  LegacyInv'
<1> DEFINE s == Initiate(q)
<1>1. net[q] # <<>> /\ Head(net[q]).t = "security_request"
  BY DEF OnSecurityRequest, Received
<1>2. q = C /\ Asking(sm[C], sm[P], net[C], net[P])
  BY <1>1, CentralHears, PeripheralHears, TwoPeers DEF KeyTypes
<1>3. /\ net[C] = <<Notice("security_request")>> /\ net[P] = <<>>
      /\ sm[P].state = "idle" /\ sm[C].state \in Resting
  BY <1>2 DEF Asking
<1>4. Handle(C, s, <<PairingRequest>>) /\ UNCHANGED <<scenario, app, key, session, bonds, consent>>
  BY <1>2 DEF OnSecurityRequest, link, threads
<1>5. /\ s.state = "pairing_rsp" /\ s.ipar = par[C] /\ s.id = requests + 1 /\ ~s.failed
      /\ Ungenerated(s) /\ s.got = NoKeys
  BY <1>2, Cleared DEF Initiate, Fields, Ungenerated
<1>6. PairingRequest = Pdu("pairing_request", [id |-> s.id, par |-> par[C]])
  BY <1>5 DEF PairingRequest, C
<1> HIDE DEF s
<1> DEFINE x == PairingRequest
<1>7. /\ sm'[C] = s /\ sm'[P] = sm[P] /\ net'[C] = <<>> /\ net'[P] = <<x>>
  BY <1>3, <1>4, ShortQueues, CentralSpeaks
<1>8. Append(<<>>, x) = <<x>>
  OBVIOUS
<1> HIDE DEF x
<1>9. Apart(sm[P], <<>>, session, consent, par)
  BY <1>3 DEF Apart, Resting
<1>10. Requesting(s, sm[P], <<>>, <<x>>, session, consent, par)
  <2>1. Initiating(s, par)
    BY <1>5 DEF Initiating
  <2>2. <<>> \in Seq({})
    OBVIOUS
  <2>3. Requesting(s, sm[P], <<>>, Append(<<>>, x), session, consent, par)
    BY <1>6, <1>9, <2>1, <2>2, RequestingOf DEF x
  <2> QED
    BY <1>8, <2>3
<1>11. Moment(sm'[C], sm'[P], net'[C], net'[P], key', session', consent', par)
  BY <1>4, <1>7, <1>10 DEF Moment
<1>12. app[P] = "waiting" /\ ~sm[P].failed
  BY <1>2, TameMoment DEF Listening
<1>13. Listening(sm'[C], sm'[P], net'[C], net'[P], app)
  BY <1>12, <1>7 DEF Listening
<1>14. ~Alone(C)
  BY <1>12, TameMoment DEF OnlyCentralAsks
<1>15. Alone(P) => OnlyPeripheralAsks(sm'[C], sm'[P], net'[C], net'[P], app)
  BY <1>3, <1>7, <1>12, TameMoment DEF OnlyPeripheralAsks
<1>16. DOMAIN key' = Peers /\ DOMAIN session' = Peers
  BY <1>4, TameTypes
<1> QED
  BY <1>4, <1>11, <1>13, <1>14, <1>15, <1>16, TameMoment, LegacyCloses

LEMMA DeclinedLegacy ==
  ASSUME Tame, NEW q \in Peers, Declined(q)
  PROVE  LegacyInv'
<1>1. net[q] # <<>> /\ Head(net[q]).t \in {"security_request", "pairing_request"}
      /\ Refuse(q) /\ Only_sm_net
  BY DEF Declined, Received
<1>2. CASE q = C
  <2>1. Asking(sm[C], sm[P], net[C], net[P])
    BY <1>1, <1>2, CentralHears DEF KeyTypes
  <2>2. /\ net[C] = <<Notice("security_request")>> /\ net[P] = <<>> /\ sm[P].state = "idle"
    BY <2>1 DEF Asking
  <2>3. /\ sm'[C] = Failed(sm[C]) /\ sm'[P] = sm[P] /\ net'[C] = <<>>
        /\ net'[P] = <<Notice("failed")>>
    BY <1>1, <1>2, <2>2, ShortQueues, CentralSpeaks DEF Refuse
  <2>4. Refusing(sm'[C], sm'[P], net'[C], net'[P])
    BY <2>2, <2>3, Cleared DEF Refusing
  <2>5. app[P] = "waiting" /\ ~sm[P].failed
    BY <2>1, TameMoment DEF Listening
  <2>6. Listening(sm'[C], sm'[P], net'[C], net'[P], app)
    BY <2>3, <2>5 DEF Listening
  <2>7. ~Alone(C)
    BY <2>5, TameMoment DEF OnlyCentralAsks
  <2>8. Alone(P) => OnlyPeripheralAsks(sm'[C], sm'[P], net'[C], net'[P], app)
    BY <2>2, <2>3, <2>5, Cleared, TameMoment DEF OnlyPeripheralAsks
  <2>9. UNCHANGED <<scenario, app, key, session, consent, bonds>>
    BY <1>1 DEF Only_sm_net, link, threads, ghosts
  <2>10. DOMAIN key' = Peers /\ DOMAIN session' = Peers
    BY <2>9, TameTypes
  <2> QED
    BY <2>4, <2>6, <2>7, <2>8, <2>9, <2>10, TameMoment, LegacyCloses DEF Moment
<1>3. CASE q = P
  <2>1. /\ Requesting(sm[C], sm[P], net[C], net[P], session, consent, par)
        /\ net[P] = <<Pdu("pairing_request", [id |-> sm[C].id, par |-> par[C]])>>
    BY <1>1, <1>3, PeripheralHears DEF KeyTypes
  <2>2. net[C] = <<>> /\ sm[C].state = "pairing_rsp" /\ Tail(net[P]) = <<>>
    BY <2>1, ShortQueues DEF Requesting, Initiating
  <2> QED
    BY <1>1, <1>3, <2>2, PeripheralFails
<1> QED
  BY <1>2, <1>3, TwoPeers

LEMMA PairingRequestLegacy ==
  ASSUME Tame, NEW q \in Peers, OnPairingRequest(q)
  PROVE  LegacyInv'
<1>1. net[q] # <<>> /\ Head(net[q]).t = "pairing_request" /\ sm[q].state \in Resting
  BY DEF OnPairingRequest, Received
<1> DEFINE x == Pdu("pairing_request", [id |-> sm[C].id, par |-> par[C]])
<1>2. /\ q = P /\ Requesting(sm[C], sm[P], net[C], net[P], session, consent, par)
      /\ net[P] = <<x>>
  BY <1>1, CentralHears, PeripheralHears, TwoPeers DEF KeyTypes
<1>3. Value(P) = [id |-> sm[C].id, par |-> par[C]] /\ Tail(net[P]) = <<>>
  <2>1. x.v = [id |-> sm[C].id, par |-> par[C]]
    BY Spoken
  <2>2. Value(P) = Head(net[P]).v
    BY DEF Value
  <2> HIDE DEF x
  <2> QED
    BY <1>2, <2>1, <2>2, ShortQueues
<1>4. net[C] = <<>> /\ Initiating(sm[C], par) /\ sm[C].state = "pairing_rsp"
  BY <1>2 DEF Requesting, Initiating
<1> DEFINE m == Chosen(par)
           s == [Reset(sm[P]) EXCEPT !.state = "pairing_req", !.id = sm[C].id,
                   !.ipar = par[C], !.rpar = par[P], !.method = m]
           t(pin) == IF m.kind = "passkey" THEN [s EXCEPT !.tk = pin] ELSE s
           y == Pdu("pairing_response", par[P])
<1>5. \E pin \in Passkeys :
        Handle(P, t(pin), <<y>>) /\ Typed(P, m, sm[C].id, pin)
  <2>1. Method(Value(P).par, par[P]) = m /\ ~m.lesc
    BY <1>3, TameMethod DEF Chosen
  <2>2. s.id = sm[C].id
    BY Cleared DEF Fields
  <2> DEFINE V == Value(P)
             n == Method(V.par, par[P])
             r == [Reset(sm[P]) EXCEPT !.state = "pairing_req", !.id = V.id,
                     !.ipar = V.par, !.rpar = par[P], !.method = n]
             w(pin) == CASE n.lesc -> [r EXCEPT !.own = KeyPair(P, r)]
                         [] ~n.lesc /\ n.kind = "passkey" -> [r EXCEPT !.tk = pin]
                         [] OTHER -> r
  <2>3. PICK pin \in Passkeys :
          /\ Handle(P, w(pin), <<y>>)
          /\ IF n.lesc THEN UNCHANGED consent ELSE Typed(P, n, r.id, pin)
    BY <1>2 DEF OnPairingRequest
  <2>4. n = m /\ r = s
    <3>1. n = m
      BY <2>1
    <3>2. V.id = sm[C].id /\ V.par = par[C]
      BY <1>3
    <3> HIDE DEF n, m, V
    <3> QED
      BY <3>1, <3>2
  <2>5. w(pin) = t(pin)
    <3> HIDE DEF n, m, r, s, V
    <3> QED
      BY <2>1, <2>4
  <2> HIDE DEF n, m, r, s, w, t, V
  <2> QED
    BY <2>1, <2>2, <2>3, <2>4, <2>5
<1>6. UNCHANGED <<scenario, key, session, app, bonds>>
  BY DEF OnPairingRequest, link, threads
<1>7. ASSUME NEW pin \in Passkeys
      PROVE  LET v == t(pin) IN
             /\ v.state = "pairing_req" /\ v.id = sm[C].id /\ v.ipar = par[C] /\ v.rpar = par[P]
             /\ v.method = m /\ Ungenerated(v) /\ v.got = NoKeys /\ ~v.failed
             /\ m.kind = "passkey" => v.tk = pin
  <2>1. LET v == Reset(sm[P]) IN
        DOMAIN v = Fields /\ Ungenerated(v) /\ v.got = NoKeys /\ ~v.failed
    BY Cleared
  <2> DEFINE w == Reset(sm[P])
  <2> HIDE DEF w, m
  <2> QED
    BY <2>1 DEF Fields, Ungenerated, w
<1> HIDE DEF t, s
<1>8. PICK pin \in Passkeys :
        Handle(P, t(pin), <<y>>) /\ Typed(P, m, sm[C].id, pin)
  BY <1>5
<1> DEFINE v == t(pin)
<1>9. /\ v.state = "pairing_req" /\ v.id = sm[C].id /\ v.ipar = par[C] /\ v.rpar = par[P]
      /\ v.method = m /\ Ungenerated(v) /\ v.got = NoKeys /\ ~v.failed
      /\ m.kind = "passkey" => v.tk = pin
  BY <1>7
<1> HIDE DEF v
<1>10. /\ sm'[P] = v /\ sm'[C] = sm[C] /\ net'[P] = <<>> /\ net'[C] = <<y>>
  BY <1>1, <1>2, <1>3, <1>4, <1>8, PeripheralSpeaks DEF v
<1>11. /\ consent \subseteq consent' /\ Entered(v, P, consent', par)
  <2>1. /\ consent \subseteq consent'
        /\ m.kind = "passkey" => <<P, sm[C].id, pin>> \in consent'
    BY <1>8 DEF Typed
  <2>2. Auth(par) <=> m.kind = "passkey"
    BY TameMethod
  <2> HIDE DEF m
  <2> QED
    BY <1>9, <2>1, <2>2 DEF Entered
<1>12. Responding(sm[C], v, <<y>>, <<>>, consent', par)
  <2>1. Answering(v, consent', par)
    BY <1>9, <1>11 DEF Answering, Paired
  <2> QED
    BY <1>4, <1>9, <2>1 DEF Responding
<1>13. Moment(sm'[C], sm'[P], net'[C], net'[P], key', session', consent', par)
  BY <1>10, <1>12 DEF Moment
<1>14. Head(net'[C]).t = "pairing_response"
  BY <1>10, ShortQueues, Spoken
<1>15. DOMAIN key' = Peers /\ DOMAIN session' = Peers
  BY <1>6, TameTypes
<1> QED
  BY <1>4, <1>6, <1>9, <1>10, <1>11, <1>13, <1>14, <1>15, RestingStates, TalkCloses

LEMMA PairingResponseLegacy ==
  ASSUME Tame, NEW q \in Peers, OnPairingResponse(q)
  PROVE  LegacyInv'
<1>1. net[q] # <<>> /\ Head(net[q]).t = "pairing_response" /\ sm[q].state = "pairing_rsp"
  BY DEF OnPairingResponse, In, Received
<1> DEFINE x == Pdu("pairing_response", par[P])
<1>2. q = C /\ Responding(sm[C], sm[P], net[C], net[P], consent, par)
  BY <1>1, CentralHears, PeripheralHears, TwoPeers DEF KeyTypes
<1>3. net[C] = <<x>> /\ net[P] = <<>>
  BY <1>2 DEF Responding
<1>4. Value(C) = par[P] /\ Tail(net[C]) = <<>>
  <2>1. x.v = par[P]
    BY Spoken
  <2>2. Value(C) = Head(net[C]).v
    BY DEF Value
  <2> HIDE DEF x
  <2> QED
    BY <1>3, <2>1, <2>2, ShortQueues
<1>5. /\ sm[C].ipar = par[C] /\ Ungenerated(sm[C]) /\ sm[C].got = NoKeys
      /\ sm[P].state = "pairing_req" /\ sm[P].id = sm[C].id /\ Answering(sm[P], consent, par)
  BY <1>2 DEF Responding, Initiating
<1> DEFINE m == Chosen(par)
           s == [sm[C] EXCEPT !.rpar = par[P], !.method = m]
           t(pin) == [s EXCEPT !.tk = IF m.kind = "passkey" THEN pin ELSE 0, !.irand = Rand(C, s)]
           f(pin) == [t(pin) EXCEPT !.iconf = LegacyConfirm(t(pin).tk, t(pin).irand),
                                    !.state = "legacy_confirm_sent"]
           y(pin) == Pdu("confirm", LegacyConfirm(t(pin).tk, t(pin).irand))
<1>6. \E pin \in Passkeys :
        Handle(C, f(pin), <<y(pin)>>) /\ Typed(C, m, sm[C].id, pin)
  <2>1. Method(sm[C].ipar, Value(C)) = m /\ ~m.lesc
    BY <1>4, <1>5, TameMethod DEF Chosen
  <2>2. s.id = sm[C].id
    BY TameTypes, TwoPeers DEF Fields
  <2> HIDE DEF m
  <2> QED
    BY <1>2, <1>4, <2>1, <2>2 DEF OnPairingResponse
<1>7. UNCHANGED <<scenario, key, session, app, bonds>>
  BY DEF OnPairingResponse, link, threads
<1>8. ASSUME NEW pin \in Passkeys
      PROVE  LET v == f(pin) IN
             /\ v.state = "legacy_confirm_sent" /\ v.id = sm[C].id /\ v.ipar = par[C]
             /\ v.rpar = par[P] /\ v.method = m /\ Ungenerated(v) /\ v.got = NoKeys
             /\ v.failed = sm[C].failed /\ y(pin) = Pdu("confirm", LegacyConfirm(v.tk, v.irand))
             /\ m.kind = "passkey" => v.tk = pin
  <2>1. DOMAIN sm[C] = Fields
    BY TameTypes, TwoPeers
  <2> HIDE DEF m
  <2> QED
    BY <1>5, <2>1 DEF Fields, Ungenerated
<1> HIDE DEF f, y
<1>9. PICK pin \in Passkeys :
        Handle(C, f(pin), <<y(pin)>>) /\ Typed(C, m, sm[C].id, pin)
  BY <1>6
<1> DEFINE v == f(pin)
           z == y(pin)
<1>10. /\ v.state = "legacy_confirm_sent" /\ v.id = sm[C].id /\ v.ipar = par[C]
       /\ v.rpar = par[P] /\ v.method = m /\ Ungenerated(v) /\ v.got = NoKeys
       /\ v.failed = sm[C].failed /\ z = Pdu("confirm", LegacyConfirm(v.tk, v.irand))
       /\ m.kind = "passkey" => v.tk = pin
  BY <1>8
<1> HIDE DEF v, z
<1>11. /\ sm'[C] = v /\ sm'[P] = sm[P] /\ net'[C] = <<>> /\ net'[P] = <<z>>
  BY <1>1, <1>2, <1>3, <1>4, <1>9, CentralSpeaks DEF v, z
<1>12. /\ consent \subseteq consent' /\ Entered(v, C, consent', par)
  <2>1. /\ consent \subseteq consent'
        /\ m.kind = "passkey" => <<C, sm[C].id, pin>> \in consent'
    BY <1>9 DEF Typed
  <2>2. Auth(par) <=> m.kind = "passkey"
    BY TameMethod
  <2> HIDE DEF m
  <2> QED
    BY <1>10, <2>1, <2>2 DEF Entered
<1>13. Entered(sm[P], P, consent', par) /\ Paired(sm[P], par) /\ Ungenerated(sm[P])
       /\ sm[P].got = NoKeys
  BY <1>5, <1>12, StillDid DEF Answering
<1>14. Together(v, sm[P], consent', par)
  BY <1>5, <1>10, <1>12, <1>13 DEF Together, Paired
<1>15. Committing(v, sm[P], <<>>, <<z>>)
  BY <1>5, <1>10 DEF Committing
<1>16. Moment(sm'[C], sm'[P], net'[C], net'[P], key', session', consent', par)
  BY <1>11, <1>14, <1>15 DEF Moment
<1>17. DOMAIN key' = Peers /\ DOMAIN session' = Peers
  BY <1>7, TameTypes
<1>18. Head(net[C]).t # "failed"
  BY <1>1, <1>2
<1> QED
  BY <1>1, <1>2, <1>5, <1>7, <1>10, <1>11, <1>12, <1>16, <1>17, <1>18, RestingStates, TalkCloses

-----------------------------------------------------------------------------
(* Commitments and random values                                           *)

LEMMA LegacyConfirmAtPeripheral ==
  ASSUME Tame, OnLegacyConfirm(P)
  PROVE  LegacyInv'
<1>1. net[P] # <<>> /\ Head(net[P]).t = "confirm"
  BY DEF OnLegacyConfirm, In, Received
<1>2. Together(sm[C], sm[P], consent, par) /\ Committing(sm[C], sm[P], net[C], net[P])
  BY <1>1, PeripheralHears DEF KeyTypes
<1> DEFINE c == LegacyConfirm(sm[C].tk, sm[C].irand)
           x == Pdu("confirm", c)
<1>3. /\ sm[C].state = "legacy_confirm_sent" /\ sm[P].state = "pairing_req" /\ net[C] = <<>>
      /\ net[P] = <<x>>
  BY <1>2 DEF Committing
<1>4. Value(P) = c /\ Tail(net[P]) = <<>>
  <2>1. x.v = c
    BY Spoken
  <2> HIDE DEF x, c
  <2> QED
    BY <1>3, <2>1, ShortQueues DEF Value
<1> DEFINE s == [sm[P] EXCEPT !.rrand = Rand(P, sm[P])]
           d == LegacyConfirm(s.tk, s.rrand)
           v == [s EXCEPT !.iconf = c, !.rconf = d, !.state = "legacy_confirm_sent"]
           y == Pdu("confirm", d)
<1>5. Handle(P, v, <<y>>) /\ Only_sm_net
  <2> HIDE DEF c
  <2> QED
    BY <1>3, <1>4 DEF OnLegacyConfirm, In
<1>6. /\ v.state = "legacy_confirm_sent" /\ v.id = sm[P].id /\ v.ipar = sm[P].ipar
      /\ v.rpar = sm[P].rpar /\ v.method = sm[P].method /\ v.tk = sm[P].tk /\ v.ltk = sm[P].ltk
      /\ v.irk = sm[P].irk /\ v.csrk = sm[P].csrk /\ v.got = sm[P].got /\ v.failed = sm[P].failed
      /\ v.iconf = c /\ y = Pdu("confirm", LegacyConfirm(v.tk, v.rrand))
  BY TameTypes, TwoPeers DEF Fields
<1> HIDE DEF v, y, s, d
<1>7. /\ sm'[P] = v /\ sm'[C] = sm[C] /\ net'[P] = <<>> /\ net'[C] = <<y>>
  BY <1>1, <1>3, <1>4, <1>5, PeripheralSpeaks
<1>8. Together(sm[C], v, consent, par)
  BY <1>2, <1>6 DEF Together, Paired, Entered, Ungenerated
<1>9. Confirming(sm[C], v, <<y>>, <<>>)
  BY <1>3, <1>6 DEF Confirming
<1>10. UNCHANGED <<scenario, app, key, session, consent, bonds>>
  BY <1>5 DEF Only_sm_net, link, threads, ghosts
<1>11. Moment(sm'[C], sm'[P], net'[C], net'[P], key', session', consent', par)
  BY <1>7, <1>8, <1>9, <1>10 DEF Moment
<1>12. Head(net'[C]).t = "confirm"
  BY <1>6, <1>7, ShortQueues, Spoken
<1>13. DOMAIN key' = Peers /\ DOMAIN session' = Peers
  BY <1>10, TameTypes
<1> QED
  BY <1>3, <1>6, <1>7, <1>10, <1>11, <1>12, <1>13, RestingStates, TalkCloses

LEMMA LegacyConfirmAtCentral ==
  ASSUME Tame, OnLegacyConfirm(C)
  PROVE  LegacyInv'
<1>1. net[C] # <<>> /\ Head(net[C]).t = "confirm"
  BY DEF OnLegacyConfirm, In, Received
<1>2. Together(sm[C], sm[P], consent, par) /\ Confirming(sm[C], sm[P], net[C], net[P])
  BY <1>1, CentralHears DEF KeyTypes
<1> DEFINE c == LegacyConfirm(sm[P].tk, sm[P].rrand)
           x == Pdu("confirm", c)
<1>3. /\ sm[C].state = "legacy_confirm_sent" /\ sm[P].state = "legacy_confirm_sent"
      /\ net[C] = <<x>> /\ net[P] = <<>>
      /\ sm[P].iconf = LegacyConfirm(sm[C].tk, sm[C].irand)
  BY <1>2 DEF Confirming
<1>4. Value(C) = c /\ Tail(net[C]) = <<>>
  <2>1. x.v = c
    BY Spoken
  <2> HIDE DEF x, c
  <2> QED
    BY <1>3, <2>1, ShortQueues DEF Value
<1> DEFINE v == [sm[C] EXCEPT !.rconf = c, !.state = "legacy_random_sent"]
           y == Pdu("random", sm[C].irand)
<1>5. Handle(C, v, <<y>>) /\ Only_sm_net
  <2> HIDE DEF c
  <2> QED
    BY <1>3, <1>4 DEF OnLegacyConfirm, In
<1>6. /\ v.state = "legacy_random_sent" /\ v.id = sm[C].id /\ v.ipar = sm[C].ipar
      /\ v.rpar = sm[C].rpar /\ v.method = sm[C].method /\ v.tk = sm[C].tk /\ v.ltk = sm[C].ltk
      /\ v.irk = sm[C].irk /\ v.csrk = sm[C].csrk /\ v.got = sm[C].got /\ v.failed = sm[C].failed
      /\ v.rconf = c /\ v.irand = sm[C].irand
  BY TameTypes, TwoPeers DEF Fields
<1> HIDE DEF v
<1>7. /\ sm'[C] = v /\ sm'[P] = sm[P] /\ net'[C] = <<>> /\ net'[P] = <<y>>
  BY <1>1, <1>3, <1>4, <1>5, CentralSpeaks
<1>8. Together(v, sm[P], consent, par)
  BY <1>2, <1>6 DEF Together, Paired, Entered, Ungenerated
<1>9. Revealing(v, sm[P], <<>>, <<y>>)
  BY <1>3, <1>6 DEF Revealing
<1>10. UNCHANGED <<scenario, app, key, session, consent, bonds>>
  BY <1>5 DEF Only_sm_net, link, threads, ghosts
<1>11. Moment(sm'[C], sm'[P], net'[C], net'[P], key', session', consent', par)
  BY <1>7, <1>8, <1>9, <1>10 DEF Moment
<1>12. DOMAIN key' = Peers /\ DOMAIN session' = Peers
  BY <1>10, TameTypes
<1>13. Head(net[C]).t # "failed"
  BY <1>1
<1> QED
  BY <1>3, <1>6, <1>7, <1>10, <1>11, <1>12, <1>13, RestingStates, TalkCloses

LEMMA LegacyConfirmLegacy ==
  ASSUME Tame, NEW q \in Peers, OnLegacyConfirm(q)
  PROVE  LegacyInv'
  BY TwoPeers, LegacyConfirmAtCentral, LegacyConfirmAtPeripheral

\* The peripheral learns whether the users typed the same passkey.
LEMMA RandomOfInitiatorLegacy ==
  ASSUME Tame, NEW q \in Peers, OnLegacyRandomOfInitiator(q)
  PROVE  LegacyInv'
<1>1. net[q] # <<>> /\ Head(net[q]).t = "random" /\ sm[q].state = "legacy_confirm_sent"
  BY DEF OnLegacyRandomOfInitiator, In, Received
<1>2. q = P /\ Together(sm[C], sm[P], consent, par) /\ Revealing(sm[C], sm[P], net[C], net[P])
  BY <1>1, CentralHears, PeripheralHears, TwoPeers DEF KeyTypes, Accepting
<1> DEFINE x == Pdu("random", sm[C].irand)
<1>3. /\ sm[C].state = "legacy_random_sent" /\ sm[P].state = "legacy_confirm_sent"
      /\ net[P] = <<x>> /\ net[C] = <<>>
      /\ sm[P].iconf = LegacyConfirm(sm[C].tk, sm[C].irand)
      /\ sm[C].rconf = LegacyConfirm(sm[P].tk, sm[P].rrand)
  BY <1>2 DEF Revealing
<1>4. Value(P) = sm[C].irand /\ Tail(net[P]) = <<>>
  <2>1. x.v = sm[C].irand
    BY Spoken
  <2> HIDE DEF x
  <2> QED
    BY <1>3, <2>1, ShortQueues DEF Value
<1> DEFINE v == [sm[P] EXCEPT !.irand = sm[C].irand, !.state = "legacy_random_sent"]
           y == Pdu("random", sm[P].rrand)
<1>5. /\ v.state = "legacy_random_sent" /\ v.id = sm[P].id /\ v.ipar = sm[P].ipar
      /\ v.rpar = sm[P].rpar /\ v.method = sm[P].method /\ v.tk = sm[P].tk /\ v.ltk = sm[P].ltk
      /\ v.irk = sm[P].irk /\ v.csrk = sm[P].csrk /\ v.got = sm[P].got /\ v.failed = sm[P].failed
      /\ v.irand = sm[C].irand /\ v.rrand = sm[P].rrand /\ v.iconf = sm[P].iconf
  BY TameTypes, TwoPeers DEF Fields
<1>6. /\ UNCHANGED <<scenario, app, calls, session, cipher, consent, requests, bonds>>
      /\ \/ /\ LegacyConfirm(v.tk, v.irand) = v.iconf
            /\ Handle(P, v, <<y>>) /\ key' = [key EXCEPT ![P] = ShortTermKey(v)]
         \/ Refuse(P) /\ UNCHANGED key
  <2>1. v.rrand = sm[P].rrand
    BY <1>5
  <2> QED
    BY <1>2, <1>4, <2>1 DEF OnLegacyRandomOfInitiator, threads, ghosts
<1> HIDE DEF v
<1>7. CASE Refuse(P) /\ UNCHANGED key
  <2>1. Only_sm_net
    BY <1>6, <1>7 DEF Only_sm_net, link, cipher, threads, ghosts
  <2> QED
    BY <1>1, <1>2, <1>3, <1>4, <1>7, <2>1, PeripheralFails
<1>8. CASE /\ LegacyConfirm(v.tk, v.irand) = v.iconf
           /\ Handle(P, v, <<y>>) /\ key' = [key EXCEPT ![P] = ShortTermKey(v)]
  <2>1. sm[C].tk = v.tk
    <3>1. <<"c1", v.tk, v.irand>> = <<"c1", sm[C].tk, sm[C].irand>>
      BY <1>3, <1>5, <1>8 DEF LegacyConfirm
    <3> QED
      BY <3>1
  <2>2. /\ sm'[P] = v /\ sm'[C] = sm[C] /\ net'[P] = <<>> /\ net'[C] = <<y>>
    BY <1>1, <1>2, <1>3, <1>4, <1>8, PeripheralSpeaks
  <2>3. key'[P] = ShortTermKey(v) /\ DOMAIN key' = Peers
    BY <1>8, TwoPeers, TameTypes
  <2>4. Together(sm[C], v, consent, par)
    BY <1>2, <1>5 DEF Together, Paired, Entered, Ungenerated
  <2>5. Accepting(sm[C], v, <<y>>, <<>>, key')
    BY <1>3, <1>5, <2>1, <2>3 DEF Accepting
  <2>6. Moment(sm'[C], sm'[P], net'[C], net'[P], key', session', consent', par)
    BY <1>6, <2>2, <2>4, <2>5 DEF Moment
  <2>7. Head(net'[C]).t = "random"
    BY <2>2, ShortQueues, Spoken
  <2>8. DOMAIN session' = Peers
    BY <1>6, TameTypes
  <2> QED
    BY <1>3, <1>5, <1>6, <2>2, <2>3, <2>6, <2>7, <2>8, RestingStates, TalkCloses
<1> QED
  BY <1>6, <1>7, <1>8

\* The central finds the commitment of the peripheral valid.
LEMMA RandomOfResponderLegacy ==
  ASSUME Tame, NEW q \in Peers, OnLegacyRandomOfResponder(q)
  PROVE  LegacyInv'
<1>1. net[q] # <<>> /\ Head(net[q]).t = "random" /\ sm[q].state = "legacy_random_sent"
  BY DEF OnLegacyRandomOfResponder, In, Received
<1>2. q = C /\ Together(sm[C], sm[P], consent, par) /\ Accepting(sm[C], sm[P], net[C], net[P], key)
  BY <1>1, CentralHears, PeripheralHears, TwoPeers DEF KeyTypes, Revealing
<1> DEFINE x == Pdu("random", sm[P].rrand)
<1>3. /\ sm[C].state = "legacy_random_sent" /\ sm[P].state = "legacy_random_sent"
      /\ sm[C].tk = sm[P].tk /\ sm[C].irand = sm[P].irand
      /\ sm[C].rconf = LegacyConfirm(sm[P].tk, sm[P].rrand) /\ key[P] = ShortTermKey(sm[P])
      /\ net[C] = <<x>> /\ net[P] = <<>>
  BY <1>2 DEF Accepting
<1>4. Value(C) = sm[P].rrand /\ Tail(net[C]) = <<>>
  <2>1. x.v = sm[P].rrand
    BY Spoken
  <2> HIDE DEF x
  <2> QED
    BY <1>3, <2>1, ShortQueues DEF Value
<1> DEFINE v == [sm[C] EXCEPT !.rrand = sm[P].rrand, !.state = "legacy_random_recvd"]
<1>5. /\ v.state = "legacy_random_recvd" /\ v.id = sm[C].id /\ v.ipar = sm[C].ipar
      /\ v.rpar = sm[C].rpar /\ v.method = sm[C].method /\ v.tk = sm[C].tk /\ v.ltk = sm[C].ltk
      /\ v.irk = sm[C].irk /\ v.csrk = sm[C].csrk /\ v.got = sm[C].got /\ v.failed = sm[C].failed
      /\ v.irand = sm[C].irand /\ v.rrand = sm[P].rrand /\ v.rconf = sm[C].rconf
  BY TameTypes, TwoPeers DEF Fields
<1>6. /\ UNCHANGED <<scenario, app, session, consent, bonds>>
      /\ Handle(C, v, <<Notice("enc_req")>>) /\ key' = [key EXCEPT ![C] = ShortTermKey(v)]
  <2>1. LegacyConfirm(v.tk, v.rrand) = v.rconf
    BY <1>3, <1>5
  <2> QED
    BY <1>2, <1>4, <2>1 DEF OnLegacyRandomOfResponder, threads, ghosts
<1> HIDE DEF v
<1>7. /\ sm'[C] = v /\ sm'[P] = sm[P] /\ net'[C] = <<>> /\ net'[P] = <<Notice("enc_req")>>
  BY <1>1, <1>2, <1>3, <1>4, <1>6, CentralSpeaks
<1>8. key'[C] # None /\ key'[C] = key'[P] /\ DOMAIN key' = Peers
  <2>1. key'[C] = ShortTermKey(v) /\ key'[P] = key[P] /\ DOMAIN key' = Peers
    BY <1>6, TwoPeers, TameTypes
  <2>2. ShortTermKey(v) = ShortTermKey(sm[P]) /\ ShortTermKey(v) # None
    BY <1>3, <1>5 DEF ShortTermKey, None
  <2> QED
    BY <1>3, <2>1, <2>2
<1>9. Together(v, sm[P], consent, par)
  BY <1>2, <1>5 DEF Together, Paired, Entered, Ungenerated
<1>10. BothDid(v.id, consent, par)
  <2>1. Auth(par) => /\ v.tk \in Pins /\ <<C, v.id, v.tk>> \in consent
                     /\ <<P, v.id, v.tk>> \in consent
    BY <1>3, <1>5, <1>9 DEF Together, Entered, Pins
  <2> QED
    BY <2>1 DEF BothDid
<1>11. Encrypting(v, sm[P], <<>>, <<Notice("enc_req")>>, key', session', consent, par)
  BY <1>3, <1>5, <1>8, <1>10 DEF Encrypting
<1>12. Moment(sm'[C], sm'[P], net'[C], net'[P], key', session', consent', par)
  BY <1>6, <1>7, <1>9, <1>11 DEF Moment
<1>13. DOMAIN session' = Peers
  BY <1>6, TameTypes
<1>14. Head(net[C]).t # "failed"
  BY <1>1, <1>2
<1> QED
  BY <1>3, <1>5, <1>6, <1>7, <1>8, <1>12, <1>13, <1>14, RestingStates, TalkCloses

-----------------------------------------------------------------------------
(* No handler of LE Secure Connections is called                           *)

LEMMA LegacyStates ==
  ASSUME Tame, NEW q \in Peers, net[q] # <<>>
  PROVE  /\ Head(net[q]).t \notin {"public_key", "dhkey_check"}
         /\ Head(net[q]).t = "confirm" => sm[q].state \in {"pairing_req", "legacy_confirm_sent"}
         /\ Head(net[q]).t = "random" =>
              sm[q].state \in {"legacy_confirm_sent", "legacy_random_sent"}
<1>1. CASE q = C
  BY <1>1, CentralHears DEF KeyTypes, Confirming, Accepting
<1>2. CASE q = P
  BY <1>2, PeripheralHears DEF KeyTypes, Committing, Revealing
<1> QED
  BY <1>1, <1>2, TwoPeers

LEMMA NoLescPdu ==
  ASSUME Tame, NEW q \in Peers
  PROVE  /\ ~OnPublicKeyOfInitiator(q) /\ ~OnPublicKeyOfResponder(q) /\ ~StrayPublicKey(q)
         /\ ~OnConfirmOfInitiator(q) /\ ~OnConfirmOfResponder(q)
         /\ ~OnRandomOfInitiator(q) /\ ~OnRandomOfResponder(q)
         /\ ~OnRandomOfRound(q) /\ ~OnRandomOfRoundAtResponder(q) /\ ~OnDhkeyCheck(q)
<1>1. ~OnPublicKeyOfInitiator(q) /\ ~OnPublicKeyOfResponder(q) /\ ~StrayPublicKey(q)
  BY LegacyStates DEF OnPublicKeyOfInitiator, OnPublicKeyOfResponder, StrayPublicKey, In, Received
<1>2. ~OnConfirmOfInitiator(q) /\ ~OnConfirmOfResponder(q)
  BY LegacyStates DEF OnConfirmOfInitiator, OnConfirmOfResponder, In, Received
<1>3. ~OnRandomOfInitiator(q) /\ ~OnRandomOfResponder(q)
  BY LegacyStates DEF OnRandomOfInitiator, OnRandomOfResponder, In, Received
<1>4. ~OnRandomOfRound(q) /\ ~OnRandomOfRoundAtResponder(q)
  BY LegacyStates DEF OnRandomOfRound, OnRandomOfRoundAtResponder, In, Received
<1>5. ~OnDhkeyCheck(q)
  BY LegacyStates DEF OnDhkeyCheck, In, Received
<1> QED
  BY <1>1, <1>2, <1>3, <1>4, <1>5

-----------------------------------------------------------------------------
(* Encryption                                                              *)

EncryptingWhen(a, b, k, z) ==
  \/ /\ a = <<>> /\ b = <<Notice("enc_req")>> /\ k[C] # None /\ k[C] = k[P]
  \/ /\ a = <<Notice("enc_rsp"), Notice("start_enc_req")>> /\ b = <<>>
     /\ k[C] # None /\ k[C] = z[P]
  \/ a = <<Notice("start_enc_req")>> /\ b = <<>> /\ SameSession(z)
  \/ a = <<>> /\ b = <<Notice("start_enc_rsp")>> /\ SameSession(z)

LEMMA EncryptingQueues ==
  ASSUME NEW a, NEW b, EncryptingWhen(a, b, key, session)
  PROVE  /\ b # <<>> /\ Head(b).t = "enc_req" =>
              a = <<>> /\ b = <<Notice("enc_req")>> /\ key[C] # None /\ key[C] = key[P]
         /\ a # <<>> /\ Head(a).t = "enc_rsp" =>
              /\ a = <<Notice("enc_rsp"), Notice("start_enc_req")>> /\ b = <<>>
              /\ key[C] # None /\ key[C] = session[P]
         /\ a # <<>> /\ Head(a).t = "start_enc_req" =>
              a = <<Notice("start_enc_req")>> /\ b = <<>> /\ SameSession(session)
         /\ b # <<>> /\ Head(b).t = "start_enc_rsp" =>
              a = <<>> /\ b = <<Notice("start_enc_rsp")>> /\ SameSession(session)
  BY ShortQueues, Spoken DEF EncryptingWhen

\* Both sides stay where they are.
LEMMA EncryptionGoesOn ==
  ASSUME Tame, UNCHANGED <<scenario, app, bonds, consent, key>>, sm'[C] = sm[C], sm'[P] = sm[P],
         DOMAIN session' = Peers, Together(sm[C], sm[P], consent, par),
         Encrypting(sm[C], sm[P], net[C], net[P], key, session, consent, par),
         EncryptingWhen(net'[C], net'[P], key, session')
  PROVE  LegacyInv'
<1>1. /\ sm[C].state = "legacy_random_recvd" /\ sm[P].state = "legacy_random_sent"
      /\ EncryptingWhen(net[C], net[P], key, session)
  BY DEF Encrypting, EncryptingWhen
<1>2. Encrypting(sm[C], sm[P], net'[C], net'[P], key, session', consent, par)
  BY DEF Encrypting, EncryptingWhen
<1>3. Moment(sm'[C], sm'[P], net'[C], net'[P], key', session', consent', par)
  BY <1>2 DEF Moment
<1>4. ASSUME NEW a, NEW b, NEW z, EncryptingWhen(a, b, key, z)
      PROVE  a = <<>> \/ Head(a).t \notin {"security_request", "failed"}
  BY <1>4, ShortQueues, Spoken DEF EncryptingWhen
<1>5. DOMAIN key' = Peers
  BY TameTypes
<1> QED
  BY <1>1, <1>3, <1>4, <1>5, RestingStates, TalkCloses

LEMMA EncReqLegacy ==
  ASSUME Tame, NEW q \in Peers, OnEncReq(q)
  PROVE  LegacyInv'
<1>1. net[q] # <<>> /\ Head(net[q]).t = "enc_req"
  BY DEF OnEncReq, Received, SetEncryption
<1>2. /\ q = P /\ Together(sm[C], sm[P], consent, par)
      /\ Encrypting(sm[C], sm[P], net[C], net[P], key, session, consent, par)
  BY <1>1, CentralHears, PeripheralHears, TwoPeers DEF KeyTypes
<1>3. EncryptingWhen(net[C], net[P], key, session)
  BY <1>2 DEF Encrypting, EncryptingWhen
<1>4. net[C] = <<>> /\ net[P] = <<Notice("enc_req")>> /\ key[C] # None /\ key[C] = key[P]
  BY <1>1, <1>2, <1>3, EncryptingQueues
<1>5. /\ Handle(P, sm[P], <<Notice("enc_rsp"), Notice("start_enc_req")>>)
      /\ session' = [session EXCEPT ![P] = key[P]]
      /\ UNCHANGED <<scenario, app, bonds, consent, key>>
  BY <1>2 DEF OnEncReq, threads, ghosts, SetEncryption
<1>6. /\ sm'[P] = sm[P] /\ sm'[C] = sm[C] /\ net'[P] = <<>>
      /\ net'[C] = <<Notice("enc_rsp"), Notice("start_enc_req")>>
  BY <1>1, <1>2, <1>4, <1>5, ShortQueues, PeripheralSpeaks
<1>7. session'[P] = key[P] /\ DOMAIN session' = Peers
  BY <1>5, TameTypes, TwoPeers
<1>8. EncryptingWhen(net'[C], net'[P], key, session')
  BY <1>4, <1>6, <1>7 DEF EncryptingWhen
<1> QED
  BY <1>2, <1>5, <1>6, <1>7, <1>8, EncryptionGoesOn

LEMMA EncRspLegacy ==
  ASSUME Tame, NEW q \in Peers, OnEncRsp(q)
  PROVE  LegacyInv'
<1>1. net[q] # <<>> /\ Head(net[q]).t = "enc_rsp"
  BY DEF OnEncRsp, Received, SetEncryption
<1>2. /\ q = C /\ Together(sm[C], sm[P], consent, par)
      /\ Encrypting(sm[C], sm[P], net[C], net[P], key, session, consent, par)
  BY <1>1, CentralHears, PeripheralHears, TwoPeers DEF KeyTypes
<1>3. EncryptingWhen(net[C], net[P], key, session)
  BY <1>2 DEF Encrypting, EncryptingWhen
<1>4. /\ net[C] = <<Notice("enc_rsp"), Notice("start_enc_req")>> /\ net[P] = <<>>
      /\ key[C] # None /\ key[C] = session[P]
  BY <1>1, <1>2, <1>3, EncryptingQueues
<1>5. /\ Handle(C, sm[C], <<>>) /\ session' = [session EXCEPT ![C] = key[C]]
      /\ UNCHANGED <<scenario, app, bonds, consent, key>>
  BY <1>2 DEF OnEncRsp, threads, ghosts, SetEncryption
<1>6. /\ sm'[P] = sm[P] /\ sm'[C] = sm[C] /\ net'[P] = <<>>
      /\ net'[C] = <<Notice("start_enc_req")>>
  BY <1>1, <1>2, <1>4, <1>5, ShortQueues, CentralSpeaks
<1>7. session'[C] = key[C] /\ session'[P] = session[P] /\ DOMAIN session' = Peers
  BY <1>5, TameTypes, TwoPeers
<1>8. EncryptingWhen(net'[C], net'[P], key, session')
  BY <1>4, <1>6, <1>7 DEF EncryptingWhen, SameSession
<1> QED
  BY <1>2, <1>5, <1>6, <1>7, <1>8, EncryptionGoesOn

LEMMA StartEncReqLegacy ==
  ASSUME Tame, NEW q \in Peers, OnStartEncReq(q)
  PROVE  LegacyInv'
<1>1. net[q] # <<>> /\ Head(net[q]).t = "start_enc_req"
  BY DEF OnStartEncReq, Received
<1>2. /\ q = C /\ Together(sm[C], sm[P], consent, par)
      /\ Encrypting(sm[C], sm[P], net[C], net[P], key, session, consent, par)
  BY <1>1, CentralHears, PeripheralHears, TwoPeers DEF KeyTypes
<1>3. EncryptingWhen(net[C], net[P], key, session)
  BY <1>2 DEF Encrypting, EncryptingWhen
<1>4. net[C] = <<Notice("start_enc_req")>> /\ net[P] = <<>> /\ SameSession(session)
  BY <1>1, <1>2, <1>3, EncryptingQueues
<1>5. /\ Handle(C, sm[C], <<Notice("start_enc_rsp")>>)
      /\ UNCHANGED <<scenario, app, bonds, consent, key, session>>
  BY <1>2 DEF OnStartEncReq, Only_sm_net, link, threads, ghosts
<1>6. /\ sm'[P] = sm[P] /\ sm'[C] = sm[C] /\ net'[C] = <<>>
      /\ net'[P] = <<Notice("start_enc_rsp")>>
  BY <1>1, <1>2, <1>4, <1>5, ShortQueues, CentralSpeaks
<1>7. DOMAIN session' = Peers
  BY <1>5, TameTypes
<1>8. EncryptingWhen(net'[C], net'[P], key, session')
  BY <1>4, <1>5, <1>6 DEF EncryptingWhen
<1> QED
  BY <1>2, <1>5, <1>6, <1>7, <1>8, EncryptionGoesOn

-----------------------------------------------------------------------------
(* Keys that are taken, and bonds                                          *)

LEMMA FirstThen ==
  ASSUME NEW S, NEW s \in Seq(S), NEW x
  PROVE  /\ \E T : <<x>> \o s \in Seq(T)
         /\ <<x>> \o s # <<>> /\ Head(<<x>> \o s) = x /\ Tail(<<x>> \o s) = s
<1> DEFINE T == S \cup {x}
           w == <<x>> \o s
<1>1. s \in Seq(T) /\ <<x>> \in Seq(T) /\ Len(<<x>>) = 1 /\ <<x>>[1] = x
  OBVIOUS
<1> HIDE DEF T
<1>2. /\ w \in Seq(T) /\ Len(w) = 1 + Len(s) /\ Len(s) \in Nat
      /\ \A i \in 1..(1 + Len(s)) : w[i] = IF i <= 1 THEN <<x>>[i] ELSE s[i - 1]
  BY <1>1, ConcatProperties, LenProperties
<1> HIDE DEF w
<1>3. w # <<>> /\ 1 \in 1..(1 + Len(s)) /\ w[1] = x
  BY <1>1, <1>2, EmptySeq
<1>4. Head(w) = x
  BY <1>2, <1>3, HeadTailProperties
<1>5. /\ Tail(w) \in Seq(T) /\ Len(Tail(w)) = Len(s)
      /\ \A i \in 1..Len(Tail(w)) : Tail(w)[i] = w[i + 1]
  BY <1>2, <1>3, HeadTailProperties
<1>6. ASSUME NEW i \in 1..Len(s) PROVE Tail(w)[i] = s[i]
  <2>1. i + 1 \in 1..(1 + Len(s)) /\ ~(i + 1 <= 1) /\ (i + 1) - 1 = i
    BY <1>2
  <2> QED
    BY <1>2, <1>5, <2>1
<1>7. Tail(w) = s
  BY <1>1, <1>5, <1>6
<1> QED
  BY <1>2, <1>3, <1>4, <1>7 DEF w

\* Nothing of a side changes but the keys it has got.
SameButGot(s, w) ==
  /\ DOMAIN w = Fields /\ w.initiator = s.initiator
  /\ w.state = s.state /\ w.failed = s.failed /\ w.id = s.id /\ w.ipar = s.ipar
  /\ w.rpar = s.rpar /\ w.method = s.method /\ w.ltk = s.ltk /\ w.irk = s.irk /\ w.csrk = s.csrk

LEMMA KeyAdded ==
  ASSUME NEW s, DOMAIN s = Fields, DOMAIN s.got = {"ltk", "ediv", "irk", "address", "csrk"},
         NEW r, NEW i, NEW o, From(s.got, r, i, o),
         NEW x \in Carriers(r, i), x.t \in Due(o[r].keys), NEW w, w = Taking(s, x.t, x.v)
  PROVE  SameButGot(s, w) /\ From(w.got, r, i, o) /\ Brought(w.got) = Brought(s.got) \cup {x.t}
<1>1. x.t \in KeyTypes
  BY CarrierTypes
<1> DEFINE g == s.got
<1>2. /\ DOMAIN g = {"ltk", "ediv", "irk", "address", "csrk"} /\ From(g, r, i, o)
  OBVIOUS
<1>3. ASSUME NEW h
      PROVE  LET v == [s EXCEPT !.got = h] IN SameButGot(s, v) /\ v.got = h
  BY DEF SameButGot, Fields
<1>4. /\ <<"ltk", r, i>> # None /\ <<"irk", r, i>> # None /\ <<"csrk", r, i>> # None
  BY DEF None
<1> HIDE DEF g
<1>5. CASE x.t = "encryption_information"
  <2> DEFINE h == [g EXCEPT !.ltk = x.v]
  <2>1. Taking(s, x.t, x.v) = [s EXCEPT !.got = h]
    BY <1>5 DEF Taking, g
  <2>2. /\ h.ltk = <<"ltk", r, i>> /\ h.ediv = g.ediv /\ h.irk = g.irk /\ h.address = g.address
        /\ h.csrk = g.csrk
    BY <1>2, <1>5, CarrierTypes
  <2> HIDE DEF h
  <2>3. From(h, r, i, o)
    BY <1>2, <2>2 DEF From
  <2>4. Brought(h) = Brought(g) \cup {"encryption_information"}
    BY <1>4, <2>2 DEF Brought
  <2> QED
    BY <1>3, <1>5, <2>1, <2>3, <2>4 DEF g
<1>6. CASE x.t = "master_identification"
  <2> DEFINE h == [g EXCEPT !.ediv = TRUE]
  <2>1. Taking(s, x.t, x.v) = [s EXCEPT !.got = h]
    BY <1>6 DEF Taking, g
  <2>2. /\ h.ltk = g.ltk /\ h.ediv /\ h.irk = g.irk /\ h.address = g.address /\ h.csrk = g.csrk
    BY <1>2
  <2> HIDE DEF h
  <2>3. From(h, r, i, o)
    BY <1>2, <2>2 DEF From
  <2>4. Brought(h) = Brought(g) \cup {"master_identification"}
    BY <2>2 DEF Brought
  <2> QED
    BY <1>3, <1>6, <2>1, <2>3, <2>4 DEF g
<1>7. CASE x.t = "identity_information"
  <2> DEFINE h == [g EXCEPT !.irk = x.v]
  <2>1. Taking(s, x.t, x.v) = [s EXCEPT !.got = h]
    BY <1>7 DEF Taking, g
  <2>2. /\ h.irk = <<"irk", r, i>> /\ h.ltk = g.ltk /\ h.ediv = g.ediv /\ h.address = g.address
        /\ h.csrk = g.csrk
    BY <1>2, <1>7, CarrierTypes
  <2>3. "id" \in o[r].keys
    BY <1>7 DEF Due
  <2> HIDE DEF h
  <2>4. From(h, r, i, o)
    BY <1>2, <2>2, <2>3 DEF From, OwnIrk
  <2>5. Brought(h) = Brought(g) \cup {"identity_information"}
    BY <1>4, <2>2 DEF Brought
  <2> QED
    BY <1>3, <1>7, <2>1, <2>4, <2>5 DEF g
<1>8. CASE x.t = "identity_address"
  <2> DEFINE h == [g EXCEPT !.address = TRUE]
  <2>1. Taking(s, x.t, x.v) = [s EXCEPT !.got = h]
    BY <1>8 DEF Taking, g
  <2>2. /\ h.ltk = g.ltk /\ h.ediv = g.ediv /\ h.irk = g.irk /\ h.address /\ h.csrk = g.csrk
    BY <1>2
  <2> HIDE DEF h
  <2>3. From(h, r, i, o)
    BY <1>2, <2>2 DEF From
  <2>4. Brought(h) = Brought(g) \cup {"identity_address"}
    BY <2>2 DEF Brought
  <2> QED
    BY <1>3, <1>8, <2>1, <2>3, <2>4 DEF g
<1>9. CASE x.t = "signing_information"
  <2> DEFINE h == [g EXCEPT !.csrk = x.v]
  <2>1. Taking(s, x.t, x.v) = [s EXCEPT !.got = h]
    BY <1>9 DEF Taking, g
  <2>2. /\ h.csrk = <<"csrk", r, i>> /\ h.ltk = g.ltk /\ h.ediv = g.ediv /\ h.address = g.address
        /\ h.irk = g.irk
    BY <1>2, <1>9, CarrierTypes
  <2>3. "sign" \in o[r].keys
    BY <1>9 DEF Due
  <2> HIDE DEF h
  <2>4. From(h, r, i, o)
    BY <1>2, <2>2, <2>3 DEF From, OwnCsrk
  <2>5. Brought(h) = Brought(g) \cup {"signing_information"}
    BY <1>4, <2>2 DEF Brought
  <2> QED
    BY <1>3, <1>9, <2>1, <2>4, <2>5 DEF g
<1> QED
  BY <1>1, <1>5, <1>6, <1>7, <1>8, <1>9 DEF KeyTypes

\* The first of the keys owed is taken: the others are still owed.
LEMMA KeyOwedTaken ==
  ASSUME NEW s, DOMAIN s = Fields, DOMAIN s.got = {"ltk", "ediv", "irk", "address", "csrk"},
         NEW r, NEW i, NEW o, From(s.got, r, i, o),
         NEW ks, Owed(ks, r, i, s.got, o), ks # <<>>,
         NEW w, w = Taking(s, Head(ks).t, Head(ks).v)
  PROVE  /\ SameButGot(s, w) /\ From(w.got, r, i, o) /\ Owed(Tail(ks), r, i, w.got, o)
         /\ PeerKeys(w) = o[r].keys => (Complete(w) <=> Tail(ks) = <<>>)
<1> DEFINE x == Head(ks)
<1>1. x \in Carriers(r, i) /\ x.t \in Due(o[r].keys)
  BY OwedHead
<1>2. SameButGot(s, w) /\ From(w.got, r, i, o) /\ Brought(w.got) = Brought(s.got) \cup {x.t}
  <2>1. w = Taking(s, x.t, x.v)
    OBVIOUS
  <2> HIDE DEF x
  <2> QED
    BY <1>1, <2>1, KeyAdded
<1>3. Owed(Tail(ks), r, i, w.got, o)
  BY <1>2, OwedHead
<1> HIDE DEF x
<1> QED
  BY <1>2, <1>3, OwedNothing, CompleteWhen

\* A side that stores its pairing, whose keys it has generated.
LEMMA BondKept ==
  ASSUME Tame, NEW q \in Peers, NEW r \in Peers, q # r, NEW s, s.method = Chosen(par),
         Own(s, q, par), From(s.got, r, s.id, par), BothDid(s.id, consent, par),
         NEW out, Done(q, s, out)
  PROVE  Kept(q, r, bonds', consent, par) /\ Kept(r, q, bonds', consent, par)
<1> DEFINE e == Bond(s)
<1>1. /\ e.id = s.id /\ e.auth = Auth(par) /\ e.own.ltk = s.ltk /\ e.own.irk = s.irk
      /\ e.own.csrk = s.csrk /\ e.peer.ltk = s.got.ltk /\ e.peer.irk = s.got.irk
      /\ e.peer.csrk = s.got.csrk
  BY DEF Bond, Auth
<1> HIDE DEF e
<1>2. bonds'[r] = bonds[r] /\ (bonds'[q] = bonds[q] \/ bonds'[q] = bonds[q] \cup {e})
  BY TameTypes DEF Done, e
<1>3. Kept(q, r, bonds, consent, par) /\ Kept(r, q, bonds, consent, par)
  BY TameMoment, TwoPeers
<1>4. /\ e.auth = Auth(par) /\ BothDid(e.id, consent, par)
      /\ e.own.ltk = <<"ltk", q, e.id>>
      /\ e.own.irk = OwnIrk(q, e.id, par) /\ e.own.csrk = OwnCsrk(q, e.id, par)
      /\ e.peer.ltk \in {None, <<"ltk", r, e.id>>}
      /\ e.peer.irk \in {None, OwnIrk(r, e.id, par)} /\ e.peer.csrk \in {None, OwnCsrk(r, e.id, par)}
  BY <1>1 DEF Own, From
<1> QED
  BY <1>2, <1>3, <1>4 DEF Kept

\* The keys a side generates.
LEMMA Generates ==
  ASSUME NEW q \in Peers, NEW s, DOMAIN s = Fields, Ungenerated(s), NEW o, OwnKeys(s) = o[q].keys
  PROVE  LET t == WithOwnKeys(q, s) IN
         /\ Own(t, q, o) /\ DOMAIN t = Fields /\ t.initiator = s.initiator
         /\ t.state = s.state /\ t.failed = s.failed /\ t.id = s.id /\ t.ipar = s.ipar
         /\ t.rpar = s.rpar /\ t.method = s.method /\ t.got = s.got
  BY DEF WithOwnKeys, Fields, Own, OwnIrk, OwnCsrk, Ungenerated

-----------------------------------------------------------------------------
(* Key distribution                                                        *)

LEMMA StartEncRspAtPeripheral ==
  ASSUME Tame, OnStartEncRsp(P)
  PROVE  LegacyInv'
<1>1. net[P] # <<>> /\ Head(net[P]).t = "start_enc_rsp"
  BY DEF OnStartEncRsp, Received
<1>2. /\ Together(sm[C], sm[P], consent, par)
      /\ Encrypting(sm[C], sm[P], net[C], net[P], key, session, consent, par)
  BY <1>1, PeripheralHears DEF KeyTypes
<1>3. /\ net[C] = <<>> /\ net[P] = <<Notice("start_enc_rsp")>> /\ SameSession(session)
      /\ Tail(net[P]) = <<>>
  <2>1. EncryptingWhen(net[C], net[P], key, session)
    BY <1>2 DEF Encrypting, EncryptingWhen
  <2>2. /\ net[C] = <<>> /\ net[P] = <<Notice("start_enc_rsp")>> /\ SameSession(session)
    BY <1>1, <2>1, EncryptingQueues
  <2> QED
    BY <2>2, ShortQueues
<1>4. /\ sm[C].state = "legacy_random_recvd" /\ sm[P].state = "legacy_random_sent"
      /\ BothDid(sm[C].id, consent, par)
  BY <1>2 DEF Encrypting
<1> DEFINE s == sm[P]
           x == Notice("start_enc_rsp")
           t == WithOwnKeys(P, s)
           v == IF "sign" \in OwnKeys(s) THEN [t EXCEPT !.state = "distribute"] ELSE t
           K == KeyPdus(P, s)
<1>5. /\ DOMAIN s = Fields /\ ~s.initiator /\ Paired(s, par) /\ Ungenerated(s) /\ s.id = sm[C].id
      /\ s.got = NoKeys /\ OwnKeys(s) = par[P].keys
  <2>1. DOMAIN s = Fields /\ ~s.initiator
    BY <1>4, TameTypes, TwoPeers
  <2>2. Paired(s, par) /\ Ungenerated(s) /\ s.id = sm[C].id /\ s.got = NoKeys
    BY <1>2 DEF Together
  <2> QED
    BY <2>1, <2>2 DEF OwnKeys, Paired
<1>6. Handle(P, v, <<x>> \o K) /\ UNCHANGED <<scenario, app, key, session, consent, bonds>>
  <2>1. MayDistribute(s)
    BY <1>4 DEF MayDistribute
  <2>2. Distribute(P, s, <<x>>) /\ UNCHANGED <<scenario, app, key, session, consent>>
    BY <1>5, <2>1 DEF OnStartEncRsp, link, threads, ghosts
  <2> QED
    BY <1>5, <2>2 DEF Distribute
<1>7. Owed(K, P, s.id, NoKeys, par)
  BY <1>5, KeyPdusOwed, TwoPeers DEF Ungenerated
<1>8. /\ Own(v, P, par) /\ v.state \in {"legacy_random_sent", "distribute"}
      /\ v.failed = s.failed /\ v.id = s.id /\ v.ipar = s.ipar
      /\ v.rpar = s.rpar /\ v.method = s.method /\ v.got = s.got
  <2>1. /\ Own(t, P, par) /\ DOMAIN t = Fields
        /\ t.state = s.state /\ t.failed = s.failed /\ t.id = s.id /\ t.ipar = s.ipar
        /\ t.rpar = s.rpar /\ t.method = s.method /\ t.got = s.got
    BY <1>5, Generates, TwoPeers
  <2> HIDE DEF t, s
  <2> QED
    BY <1>4, <2>1 DEF Fields, Own, s
<1> HIDE DEF v, t, K, x
<1>9. K \in Seq(Carriers(P, s.id))
  BY <1>7 DEF Owed
<1>10. /\ \E S : <<x>> \o K \in Seq(S)
       /\ <<x>> \o K # <<>> /\ Head(<<x>> \o K) = x /\ Tail(<<x>> \o K) = K
  BY <1>9, FirstThen
<1> DEFINE out == <<x>> \o K
<1>11. /\ \E S : out \in Seq(S)
       /\ out # <<>> /\ Head(out) = x /\ Tail(out) = K
  BY <1>10
<1>12. Handle(P, v, out)
  BY <1>6
<1> HIDE DEF out
<1>13. /\ sm'[P] = v /\ sm'[C] = sm[C] /\ net'[P] = <<>> /\ net'[C] = out
  BY <1>1, <1>3, <1>11, <1>12, PeripheralSaysAll
<1>14. Distributing(sm[C], v, out, <<>>, session, consent, par)
  <2>1. /\ sm[C].state = "legacy_random_recvd" /\ v.id = sm[C].id /\ Paired(sm[C], par)
        /\ Ungenerated(sm[C]) /\ sm[C].got = NoKeys /\ Paired(v, par)
    BY <1>2, <1>4, <1>5, <1>8 DEF Together, Paired
  <2>2. From(NoKeys, P, sm[C].id, par)
    BY DEF From, NoKeys
  <2> QED
    BY <1>3, <1>4, <1>5, <1>7, <1>8, <1>11, <2>1, <2>2 DEF Distributing, x
<1>15. Moment(sm'[C], sm'[P], net'[C], net'[P], key', session', consent', par)
  BY <1>6, <1>13, <1>14 DEF Moment
<1>16. Head(net'[C]).t = "start_enc_rsp"
  BY <1>11, <1>13, Spoken DEF x
<1>17. DOMAIN key' = Peers /\ DOMAIN session' = Peers
  BY <1>6, TameTypes
<1> QED
  BY <1>3, <1>4, <1>6, <1>8, <1>13, <1>15, <1>16, <1>17, RestingStates, TalkCloses

\* The central has got all it waits for: it sends its keys and stores the pairing.
LEMMA CentralStores ==
  ASSUME Tame, net[C] # <<>>, Tail(net[C]) = <<>>, Head(net[C]).t # "failed",
         Distributing(sm[C], sm[P], net[C], net[P], session, consent, par),
         NEW s, SameButGot(sm[C], s), From(s.got, P, s.id, par), Distribute(C, s, <<>>),
         UNCHANGED <<scenario, app, key, session, consent>>
  PROVE  LegacyInv'
<1> DEFINE t == WithOwnKeys(C, s)
           K == KeyPdus(C, s)
           v == [t EXCEPT !.state = "done"]
<1>1. /\ sm[C].state = "legacy_random_recvd" /\ sm[P].id = sm[C].id
      /\ Paired(sm[C], par) /\ Ungenerated(sm[C]) /\ BothDid(sm[C].id, consent, par)
      /\ sm[P].state \in {"legacy_random_sent", "distribute"} /\ Paired(sm[P], par)
      /\ Own(sm[P], P, par) /\ sm[P].got = NoKeys /\ net[P] = <<>> /\ SameSession(session)
  BY DEF Distributing
<1>2. /\ DOMAIN s = Fields /\ s.initiator /\ Paired(s, par) /\ Ungenerated(s)
      /\ s.id = sm[C].id /\ OwnKeys(s) = par[C].keys
  <2>1. DOMAIN s = Fields /\ s.initiator /\ Paired(s, par) /\ Ungenerated(s) /\ s.id = sm[C].id
    BY <1>1, TameTypes DEF SameButGot, Paired, Ungenerated
  <2> QED
    BY <2>1 DEF OwnKeys, Paired
<1>3. /\ Own(t, C, par) /\ DOMAIN t = Fields /\ t.id = s.id /\ t.method = s.method
      /\ t.got = s.got
  BY <1>2, Generates, TwoPeers
<1>4. Owed(K, C, s.id, NoKeys, par)
  BY <1>2, KeyPdusOwed, TwoPeers DEF Ungenerated
<1>5. Done(C, t, <<>> \o K)
  BY <1>2 DEF Distribute
<1>6. v.state = "done"
  BY <1>3 DEF Fields
<1> HIDE DEF t, K
<1>7. \E S : K \in Seq(S)
  BY <1>4 DEF Owed
<1>8. <<>> \o K = K
  BY <1>7, ConcatEmptySeq
<1>9. Done(C, t, K)
  BY <1>5, <1>8
<1>10. Handle(C, v, K)
  BY <1>9 DEF Done
<1> HIDE DEF v
<1>11. /\ sm'[C] = v /\ sm'[P] = sm[P] /\ net'[C] = <<>> /\ net'[P] = K
  BY <1>1, <1>7, <1>10, CentralSaysAll
<1>12. Kept(C, P, bonds', consent, par) /\ Kept(P, C, bonds', consent, par)
  BY <1>1, <1>2, <1>3, <1>9, BondKept, TwoPeers DEF Paired
<1>13. Apart(sm[P], K, session, consent, par)
  <2>1. From(sm[P].got, C, sm[P].id, par)
    BY <1>1 DEF From, NoKeys
  <2> QED
    BY <1>1, <1>2, <1>4, <2>1 DEF Apart
<1>14. Rest(v, sm[P], <<>>, K, session, consent, par)
  BY <1>6, <1>13, RestingStates DEF Rest
<1>15. Moment(sm'[C], sm'[P], net'[C], net'[P], key', session', consent', par)
  BY <1>11, <1>14 DEF Moment
<1>16. sm[P].state # "idle" /\ sm[P].state \notin Resting
  BY <1>1, RestingStates
<1>17. Listening(sm'[C], sm'[P], net'[C], net'[P], app)
  <2>1. <<Notice("failed"), Notice("security_request")>> # <<>>
    BY ShortQueues
  <2> QED
    BY <1>11, <1>16, <2>1 DEF Listening, Asking, Refusing
<1>18. Alone(C) => OnlyCentralAsks(sm'[C], app)
  BY <1>6, <1>11, RestingStates, TameMoment DEF OnlyCentralAsks
<1>19. Alone(P) => OnlyPeripheralAsks(sm'[C], sm'[P], net'[C], net'[P], app)
  <2>1. ~Free(sm[C], sm[P], net[C], net[P])
    BY <1>16 DEF Free
  <2> QED
    BY <1>6, <1>11, <2>1, TameMoment DEF OnlyPeripheralAsks
<1>20. DOMAIN key' = Peers /\ DOMAIN session' = Peers
  BY TameTypes
<1> QED
  BY <1>12, <1>15, <1>17, <1>18, <1>19, <1>20, LegacyCloses

\* It waits for more.
LEMMA CentralWaits ==
  ASSUME Tame, net[C] # <<>>, Tail(net[C]) # <<>>, Head(net[C]).t # "failed",
         Distributing(sm[C], sm[P], net[C], net[P], session, consent, par),
         NEW s, SameButGot(sm[C], s), From(s.got, P, s.id, par), Handle(C, s, <<>>),
         Owed(Tail(net[C]), P, s.id, s.got, par),
         UNCHANGED <<scenario, app, key, session, consent, bonds>>
  PROVE  LegacyInv'
<1> DEFINE a == Tail(net[C])
<1>1. /\ sm[C].state = "legacy_random_recvd" /\ sm[P].id = sm[C].id
      /\ Paired(sm[C], par) /\ Ungenerated(sm[C]) /\ BothDid(sm[C].id, consent, par)
      /\ sm[P].state \in {"legacy_random_sent", "distribute"} /\ Paired(sm[P], par)
      /\ Own(sm[P], P, par) /\ sm[P].got = NoKeys /\ net[P] = <<>> /\ SameSession(session)
  BY DEF Distributing
<1>2. /\ s.state = "legacy_random_recvd" /\ sm[P].id = s.id /\ s.failed = sm[C].failed
      /\ Paired(s, par) /\ Ungenerated(s) /\ BothDid(s.id, consent, par)
  BY <1>1 DEF SameButGot, Paired, Ungenerated
<1>3. /\ sm'[C] = s /\ sm'[P] = sm[P] /\ net'[C] = a /\ net'[P] = <<>>
  BY <1>1, CentralSpeaks
<1>4. a # <<>> /\ Owed(a, P, s.id, s.got, par)
  OBVIOUS
<1> HIDE DEF a
<1>5. Distributing(s, sm[P], a, <<>>, session, consent, par)
  BY <1>1, <1>2, <1>4 DEF Distributing
<1>6. Moment(sm'[C], sm'[P], net'[C], net'[P], key', session', consent', par)
  BY <1>3, <1>5 DEF Moment
<1>7. Head(a).t \in KeyTypes
  BY <1>4, OwedHead, CarrierTypes
<1>8. Head(net'[C]).t \notin {"security_request", "failed"}
  BY <1>3, <1>7 DEF KeyTypes
<1>9. DOMAIN key' = Peers /\ DOMAIN session' = Peers
  BY TameTypes
<1> QED
  BY <1>1, <1>2, <1>3, <1>6, <1>8, <1>9, RestingStates, TalkCloses

LEMMA StartEncRspAtCentral ==
  ASSUME Tame, OnStartEncRsp(C)
  PROVE  LegacyInv'
<1>1. net[C] # <<>> /\ Head(net[C]).t = "start_enc_rsp"
  BY DEF OnStartEncRsp, Received
<1>2. Distributing(sm[C], sm[P], net[C], net[P], session, consent, par)
  BY <1>1, CentralHears DEF KeyTypes
<1>3. sm[C].got = NoKeys /\ Owed(Tail(net[C]), P, sm[C].id, sm[C].got, par)
  <2>1. ASSUME Owed(net[C], P, sm[C].id, sm[C].got, par)
        PROVE  FALSE
    <3>1. Head(net[C]).t \in KeyTypes
      BY <1>1, <2>1, OwedHead, CarrierTypes
    <3> QED
      BY <1>1, <3>1 DEF KeyTypes
  <2> QED
    BY <1>2, <2>1 DEF Distributing
<1>4. sm[C].state = "legacy_random_recvd" /\ Paired(sm[C], par) /\ From(sm[C].got, P, sm[C].id, par)
  BY <1>2 DEF Distributing
<1>5. DOMAIN sm[C] = Fields /\ sm[C].initiator
  BY <1>4, TameTypes, TwoPeers
<1>6. PeerKeys(sm[C]) = par[P].keys
  BY <1>4, <1>5 DEF PeerKeys, PeerOf, Paired
<1>7. MayDistribute(sm[C]) <=> Tail(net[C]) = <<>>
  BY <1>3, <1>4, <1>6, OwedNothing, CompleteWhen DEF MayDistribute
<1>8. SameButGot(sm[C], sm[C])
  BY <1>5 DEF SameButGot
<1>9. /\ UNCHANGED <<scenario, app, key, session, consent>>
      /\ \/ MayDistribute(sm[C]) /\ Distribute(C, sm[C], <<>>)
         \/ ~MayDistribute(sm[C]) /\ Handle(C, sm[C], <<>>) /\ UNCHANGED bonds
  BY <1>5 DEF OnStartEncRsp, link, threads, ghosts
<1>10. CASE MayDistribute(sm[C]) /\ Distribute(C, sm[C], <<>>)
  BY <1>1, <1>2, <1>4, <1>7, <1>8, <1>9, <1>10, CentralStores
<1>11. CASE ~MayDistribute(sm[C]) /\ Handle(C, sm[C], <<>>) /\ UNCHANGED bonds
  BY <1>1, <1>2, <1>3, <1>4, <1>7, <1>8, <1>9, <1>11, CentralWaits
<1> QED
  BY <1>9, <1>10, <1>11

LEMMA StartEncRspLegacy ==
  ASSUME Tame, NEW q \in Peers, OnStartEncRsp(q)
  PROVE  LegacyInv'
  BY TwoPeers, StartEncRspAtCentral, StartEncRspAtPeripheral

\* A handler of a key takes the one the first PDU carries.
LEMMA KeyHandled ==
  ASSUME NEW q \in Peers, OnKey(q)
  PROVE  LET h == Head(net[q])
             s == Taking(sm[q], h.t, h.v) IN
         /\ net[q] # <<>> /\ h.t \in KeyTypes /\ UNCHANGED <<scenario, app, key, session, consent>>
         /\ \/ Complete(s) /\ s.initiator  /\ Distribute(q, s, <<>>)
            \/ Complete(s) /\ ~s.initiator /\ Done(q, s, <<>>)
            \/ ~Complete(s) /\ Handle(q, s, <<>>) /\ UNCHANGED bonds
<1>1. \E t \in KeyTypes :
        LET s == Taking(sm[q], t, Value(q)) IN
        /\ Received(q, t)
        /\ \/ Complete(s) /\ s.initiator  /\ Distribute(q, s, <<>>)
           \/ Complete(s) /\ ~s.initiator /\ Done(q, s, <<>>)
           \/ ~Complete(s) /\ Handle(q, s, <<>>) /\ UNCHANGED bonds
        /\ UNCHANGED <<scenario, app, key, session, consent>>
  BY DEF OnKey, Taking, link, threads, ghosts
<1> QED
  BY <1>1 DEF Received, Value

LEMMA KeyAtCentral ==
  ASSUME Tame, OnKey(C)
  PROVE  LegacyInv'
<1> DEFINE h == Head(net[C])
           s == Taking(sm[C], h.t, h.v)
<1>1. /\ net[C] # <<>> /\ h.t \in KeyTypes /\ UNCHANGED <<scenario, app, key, session, consent>>
      /\ \/ Complete(s) /\ s.initiator  /\ Distribute(C, s, <<>>)
         \/ Complete(s) /\ ~s.initiator /\ Done(C, s, <<>>)
         \/ ~Complete(s) /\ Handle(C, s, <<>>) /\ UNCHANGED bonds
  BY KeyHandled, TwoPeers
<1>2. Distributing(sm[C], sm[P], net[C], net[P], session, consent, par)
  BY <1>1, CentralHears DEF KeyTypes
<1>3. Owed(net[C], P, sm[C].id, sm[C].got, par)
  <2>1. h # Notice("start_enc_rsp")
    BY <1>1, Spoken DEF KeyTypes
  <2> QED
    BY <1>2, <2>1 DEF Distributing
<1>4. /\ sm[C].state = "legacy_random_recvd" /\ Paired(sm[C], par)
      /\ From(sm[C].got, P, sm[C].id, par)
  BY <1>2 DEF Distributing
<1>5. /\ DOMAIN sm[C] = Fields /\ DOMAIN sm[C].got = {"ltk", "ediv", "irk", "address", "csrk"}
      /\ sm[C].initiator
  BY <1>4, TameTypes, TwoPeers
<1>6. /\ SameButGot(sm[C], s) /\ From(s.got, P, sm[C].id, par)
      /\ Owed(Tail(net[C]), P, sm[C].id, s.got, par)
      /\ PeerKeys(s) = par[P].keys => (Complete(s) <=> Tail(net[C]) = <<>>)
  BY <1>1, <1>3, <1>4, <1>5, KeyOwedTaken
<1> HIDE DEF s, h
<1>7. s.id = sm[C].id /\ s.initiator /\ PeerKeys(s) = par[P].keys
  BY <1>4, <1>5, <1>6 DEF SameButGot, PeerKeys, PeerOf, Paired
<1>8. h.t # "failed"
  BY <1>1 DEF KeyTypes
<1>9. CASE Complete(s) /\ Distribute(C, s, <<>>)
  BY <1>1, <1>2, <1>6, <1>7, <1>8, <1>9, CentralStores DEF h
<1>10. CASE ~Complete(s) /\ Handle(C, s, <<>>) /\ UNCHANGED bonds
  BY <1>1, <1>2, <1>6, <1>7, <1>8, <1>10, CentralWaits DEF h
<1> QED
  BY <1>1, <1>7, <1>9, <1>10

\* The keys of the central that are on their way, before its next request.
LEMMA KeysWaiting ==
  ASSUME Tame, net[P] # <<>>, Head(net[P]).t \in KeyTypes
  PROVE  \E ks : /\ ks # <<>> /\ Head(net[P]) = Head(ks)
                 /\ Apart(sm[P], ks, session, consent, par)
                 /\ \/ /\ sm[C].state \in Resting /\ net[P] = ks
                    \/ /\ Initiating(sm[C], par)
                       /\ Tail(net[P]) = Append(Tail(ks),
                                           Pdu("pairing_request", [id |-> sm[C].id, par |-> par[C]]))
<1> DEFINE x == Pdu("pairing_request", [id |-> sm[C].id, par |-> par[C]])
<1>1. CASE Rest(sm[C], sm[P], net[C], net[P], session, consent, par)
  BY <1>1 DEF Rest
<1>2. CASE Requesting(sm[C], sm[P], net[C], net[P], session, consent, par)
  <2>1. PICK s : /\ \E T : s \in Seq(T)
                 /\ net[P] = Append(s, x) /\ Apart(sm[P], s, session, consent, par)
    <3>1. PICK S : net[P] \in Seq(S)
      BY TwoPeers, TameTypes
    <3> QED
      BY <1>2, <3>1, RequestingAfter
  <2>2. x.t = "pairing_request"
    BY Spoken
  <2> HIDE DEF x
  <2>3. s # <<>>
    <3>1. ASSUME s = <<>> PROVE Head(net[P]) = x
      BY <2>1, <3>1, RequestHead
    <3> QED
      BY <2>2, <3>1 DEF KeyTypes
  <2>4. Head(net[P]) = Head(s) /\ Tail(net[P]) = Append(Tail(s), x)
    BY <2>1, <2>3, RequestHead
  <2>5. Initiating(sm[C], par)
    BY <1>2 DEF Requesting
  <2> QED
    BY <2>1, <2>3, <2>4, <2>5 DEF x
<1> QED
  BY <1>1, <1>2, PeripheralHears DEF KeyTypes

\* The peripheral takes a key, with more to come or none.
LEMMA PeripheralTakes ==
  ASSUME Tame, net[P] # <<>>, Head(net[P]).t \in KeyTypes,
         NEW v, NEW ks, NEW T, ks \in Seq(T), sm'[P] = v, sm'[C] = sm[C], net'[C] = <<>>,
         Apart(v, ks, session, consent, par), v.state # "idle", v.failed = sm[P].failed,
         sm[P].state \notin Resting, v.state = "done" => ks = <<>>,
         \/ sm[C].state \in Resting /\ net'[P] = ks
         \/ /\ Initiating(sm[C], par)
            /\ net'[P] = Append(ks, Pdu("pairing_request", [id |-> sm[C].id, par |-> par[C]])),
         Kept(C, P, bonds', consent, par), Kept(P, C, bonds', consent, par),
         UNCHANGED <<scenario, app, key, session, consent>>
  PROVE  LegacyInv'
<1> DEFINE x == Pdu("pairing_request", [id |-> sm[C].id, par |-> par[C]])
<1>1. Moment(sm'[C], sm'[P], net'[C], net'[P], key', session', consent', par)
  <2>1. CASE sm[C].state \in Resting /\ net'[P] = ks
    <3>1. Rest(sm[C], v, <<>>, ks, session, consent, par)
      BY <2>1 DEF Rest
    <3> QED
      BY <2>1, <3>1 DEF Moment
  <2>2. CASE Initiating(sm[C], par) /\ net'[P] = Append(ks, x)
    <3>1. Requesting(sm[C], v, <<>>, Append(ks, x), session, consent, par)
      BY <2>2, RequestingOf
    <3> HIDE DEF x
    <3> QED
      BY <2>2, <3>1 DEF Moment
  <2> QED
    BY <2>1, <2>2
<1>2. Listening(sm'[C], sm'[P], net'[C], net'[P], app)
  <2>1. /\ <<Notice("failed"), Notice("security_request")>> # <<>>
        /\ <<Notice("security_request")>> # <<>>
    BY ShortQueues
  <2> QED
    BY <2>1 DEF Listening, Asking, Refusing
<1>3. Alone(C) => OnlyCentralAsks(sm'[C], app)
  BY TameMoment
<1>4. ASSUME Alone(P)
      PROVE  OnlyPeripheralAsks(sm'[C], sm'[P], net'[C], net'[P], app)
  <2>1. /\ app[C] = "idle" /\ (sm[C].state = "pairing_rsp" => sm[P].state \in {"idle", "pairing_req"})
        /\ app[P] # "waiting" \/ sm[P].failed \/ sm[P].state = "done" =>
             Free(sm[C], sm[P], net[C], net[P])
    BY <1>4, TameMoment DEF OnlyPeripheralAsks
  <2>2. ~Free(sm[C], sm[P], net[C], net[P])
    BY DEF Free
  <2>3. sm[P].state \in {"legacy_random_sent", "distribute"}
    BY PeripheralHears DEF KeyTypes, Rest, Requesting, Apart
  <2>4. sm[C].state # "pairing_rsp" /\ sm[C].state \in Resting
    BY <2>1, <2>3, RestingStates DEF Initiating
  <2>5. net'[P] = ks
    BY <2>4, RestingStates DEF Initiating
  <2>6. v.state = "done" => Free(sm[C], v, <<>>, net'[P])
    BY <2>4, <2>5, RestingStates DEF Free
  <2> QED
    BY <2>1, <2>2, <2>4, <2>6 DEF OnlyPeripheralAsks
<1>5. DOMAIN key' = Peers /\ DOMAIN session' = Peers
  BY TameTypes
<1> HIDE DEF x
<1> QED
  BY <1>1, <1>2, <1>3, <1>4, <1>5, LegacyCloses

LEMMA KeyAtPeripheral ==
  ASSUME Tame, OnKey(P)
  PROVE  LegacyInv'
<1> DEFINE h == Head(net[P])
           s == Taking(sm[P], h.t, h.v)
           x == Pdu("pairing_request", [id |-> sm[C].id, par |-> par[C]])
<1>1. /\ net[P] # <<>> /\ h.t \in KeyTypes /\ UNCHANGED <<scenario, app, key, session, consent>>
      /\ \/ Complete(s) /\ s.initiator  /\ Distribute(P, s, <<>>)
         \/ Complete(s) /\ ~s.initiator /\ Done(P, s, <<>>)
         \/ ~Complete(s) /\ Handle(P, s, <<>>) /\ UNCHANGED bonds
  BY KeyHandled, TwoPeers
<1>2. PICK ks : /\ ks # <<>> /\ h = Head(ks)
                /\ Apart(sm[P], ks, session, consent, par)
                /\ \/ sm[C].state \in Resting /\ net[P] = ks
                   \/ Initiating(sm[C], par) /\ Tail(net[P]) = Append(Tail(ks), x)
  BY <1>1, KeysWaiting
<1>3. /\ sm[P].state \in {"legacy_random_sent", "distribute"} /\ Paired(sm[P], par)
      /\ Own(sm[P], P, par) /\ From(sm[P].got, C, sm[P].id, par)
      /\ BothDid(sm[P].id, consent, par) /\ Owed(ks, C, sm[P].id, sm[P].got, par)
      /\ SameSession(session)
  BY <1>2 DEF Apart
<1>4. net[C] = <<>>
  BY <1>1, PeripheralHears DEF KeyTypes, Rest, Requesting
<1>5. /\ DOMAIN sm[P] = Fields /\ DOMAIN sm[P].got = {"ltk", "ediv", "irk", "address", "csrk"}
      /\ ~sm[P].initiator
  BY <1>3, TameTypes, TwoPeers
<1>6. /\ SameButGot(sm[P], s) /\ From(s.got, C, sm[P].id, par)
      /\ Owed(Tail(ks), C, sm[P].id, s.got, par)
      /\ PeerKeys(s) = par[C].keys => (Complete(s) <=> Tail(ks) = <<>>)
  <2>1. s = Taking(sm[P], Head(ks).t, Head(ks).v)
    BY <1>2
  <2> HIDE DEF s, h
  <2> QED
    BY <1>2, <1>3, <1>5, <2>1, KeyOwedTaken
<1> HIDE DEF s, x
<1>7. /\ s.id = sm[P].id /\ ~s.initiator /\ PeerKeys(s) = par[C].keys /\ Paired(s, par)
      /\ Own(s, P, par) /\ s.state = sm[P].state /\ s.failed = sm[P].failed /\ DOMAIN s = Fields
  BY <1>3, <1>5, <1>6 DEF SameButGot, PeerKeys, PeerOf, Paired, Own
<1> DEFINE kr == Tail(ks)
<1>8. kr \in Seq(Carriers(C, sm[P].id)) /\ Owed(kr, C, s.id, s.got, par)
  BY <1>6, <1>7 DEF Owed
<1>9. \/ sm[C].state \in Resting /\ Tail(net[P]) = kr
      \/ Initiating(sm[C], par) /\ Tail(net[P]) = Append(kr, x)
  BY <1>2
<1>10. Complete(s) <=> kr = <<>>
  BY <1>6, <1>7
<1> HIDE DEF kr
<1>11. sm[P].state \notin Resting /\ sm[P].state # "idle" /\ sm[P].state # "done"
  BY <1>3, RestingStates
<1>12. CASE ~Complete(s) /\ Handle(P, s, <<>>) /\ UNCHANGED bonds
  <2>1. /\ sm'[P] = s /\ sm'[C] = sm[C] /\ net'[P] = Tail(net[P]) /\ net'[C] = <<>>
    BY <1>1, <1>4, <1>12, PeripheralSpeaks
  <2>2. Apart(s, kr, session, consent, par)
    BY <1>3, <1>6, <1>7, <1>8 DEF Apart
  <2>3. Kept(C, P, bonds', consent, par) /\ Kept(P, C, bonds', consent, par)
    BY <1>12, TameMoment
  <2>4. \/ sm[C].state \in Resting /\ net'[P] = kr
        \/ Initiating(sm[C], par) /\ net'[P] = Append(kr, x)
    BY <1>9, <2>1
  <2>5. s.state # "done" /\ s.state # "idle"
    BY <1>7, <1>11
  <2> QED
    BY <1>1, <1>7, <1>8, <1>11, <2>1, <2>2, <2>3, <2>4, <2>5, PeripheralTakes DEF x
<1>13. CASE Complete(s) /\ Done(P, s, <<>>)
  <2> DEFINE v == [s EXCEPT !.state = "done"]
  <2>1. v.state = "done" /\ v.failed = s.failed
    BY <1>7 DEF Fields
  <2>2. Handle(P, v, <<>>)
    BY <1>13 DEF Done
  <2> HIDE DEF v
  <2>3. /\ sm'[P] = v /\ sm'[C] = sm[C] /\ net'[P] = Tail(net[P]) /\ net'[C] = <<>>
    BY <1>1, <1>4, <2>2, PeripheralSpeaks
  <2>4. kr = <<>>
    BY <1>10, <1>13
  <2>5. Apart(v, kr, session, consent, par)
    BY <2>1, <2>4, RestingStates DEF Apart
  <2>6. Kept(P, C, bonds', consent, par) /\ Kept(C, P, bonds', consent, par)
    <3>1. s.method = Chosen(par) /\ From(s.got, C, s.id, par) /\ BothDid(s.id, consent, par)
      BY <1>3, <1>6, <1>7 DEF Paired
    <3> QED
      BY <1>7, <1>13, <3>1, BondKept, TwoPeers
  <2>7. \/ sm[C].state \in Resting /\ net'[P] = kr
        \/ Initiating(sm[C], par) /\ net'[P] = Append(kr, x)
    BY <1>9, <2>3
  <2>8. v.state # "idle"
    BY <2>1
  <2>9. v.failed = sm[P].failed
    BY <1>7, <2>1
  <2> QED
    BY <1>1, <1>8, <1>11, <2>3, <2>4, <2>5, <2>6, <2>7, <2>8, <2>9, PeripheralTakes DEF x
<1> QED
  BY <1>1, <1>7, <1>12, <1>13

LEMMA KeyLegacy ==
  ASSUME Tame, NEW q \in Peers, OnKey(q)
  PROVE  LegacyInv'
  BY TwoPeers, KeyAtCentral, KeyAtPeripheral

-----------------------------------------------------------------------------
(* Failures                                                                *)

LEMMA FailedLegacy ==
  ASSUME Tame, NEW q \in Peers, OnFailed(q)
  PROVE  LegacyInv'
<1>1. /\ net[q] # <<>> /\ Head(net[q]).t = "failed" /\ Handle(q, Failed(sm[q]), <<>>)
      /\ UNCHANGED <<scenario, app, key, session, consent, bonds>>
  BY DEF OnFailed, Received, Only_sm_net, link, threads, ghosts
<1>2. /\ Failed(sm[q]).state = "idle" /\ Failed(sm[q]).state \in Resting
  BY Cleared, RestingStates
<1>3. DOMAIN key' = Peers /\ DOMAIN session' = Peers
  BY <1>1, TameTypes
<1>4. /\ Kept(C, P, bonds', consent', par) /\ Kept(P, C, bonds', consent', par)
  BY <1>1, TameMoment
<1>5. CASE q = C
  <2>1. Failing(sm[C], sm[P], net[C], net[P])
    BY <1>1, <1>5, CentralHears DEF KeyTypes
  <2>2. sm[P].state = "idle" /\ net[P] = <<>>
    BY <2>1 DEF Failing
  <2>3. /\ sm'[C] = Failed(sm[C]) /\ sm'[P] = sm[P] /\ net'[C] = Tail(net[C])
        /\ net'[P] = <<>>
    BY <1>1, <1>5, <2>2, CentralSpeaks
  <2>4. sm'[C].state \in Resting /\ sm'[C].state = "idle"
    BY <1>2, <1>5, <2>3
  <2>5. CASE net[C] = <<Notice("failed")>>
    <3>1. net'[C] = <<>>
      BY <2>3, <2>5, ShortQueues
    <3>2. Apart(sm'[P], <<>>, session, consent, par)
      BY <2>2, <2>3, RestingStates DEF Apart
    <3>3. Rest(sm'[C], sm'[P], net'[C], net'[P], session, consent, par)
      BY <2>3, <2>4, <3>1, <3>2 DEF Rest
    <3>4. Moment(sm'[C], sm'[P], net'[C], net'[P], key', session', consent', par)
      BY <1>1, <3>3 DEF Moment
    <3>5. Listening(sm'[C], sm'[P], net'[C], net'[P], app)
      <4>1. /\ <<Notice("failed"), Notice("security_request")>> # <<>>
            /\ <<Notice("security_request")>> # <<>> /\ <<Notice("failed")>> # <<>>
        BY ShortQueues
      <4> QED
        BY <2>3, <3>1, <4>1 DEF Listening, Asking, Refusing
    <3>6. Alone(C) => OnlyCentralAsks(sm'[C], app)
      BY <2>4, TameMoment DEF OnlyCentralAsks
    <3>7. Alone(P) => OnlyPeripheralAsks(sm'[C], sm'[P], net'[C], net'[P], app)
      <4>1. Free(sm'[C], sm'[P], net'[C], net'[P])
        BY <2>2, <2>3, <2>4, <3>1, RestingStates DEF Free
      <4> QED
        BY <2>4, <4>1, TameMoment DEF OnlyPeripheralAsks
    <3> QED
      BY <1>1, <1>3, <1>4, <3>4, <3>5, <3>6, <3>7, LegacyCloses
  <2>6. CASE net[C] = <<Notice("failed"), Notice("security_request")>>
    <3>1. net'[C] = <<Notice("security_request")>>
      BY <2>3, <2>6, ShortQueues
    <3>2. Asking(sm'[C], sm'[P], net'[C], net'[P])
      BY <2>2, <2>3, <2>4, <3>1 DEF Asking
    <3>3. Moment(sm'[C], sm'[P], net'[C], net'[P], key', session', consent', par)
      BY <3>2 DEF Moment
    <3>4. app[P] = "waiting" /\ ~sm[P].failed
      BY <2>6, TameMoment DEF Listening
    <3>5. Listening(sm'[C], sm'[P], net'[C], net'[P], app)
      BY <2>3, <3>4 DEF Listening
    <3>6. ~Alone(C)
      BY <3>4, TameMoment DEF OnlyCentralAsks
    <3>7. Alone(P) => OnlyPeripheralAsks(sm'[C], sm'[P], net'[C], net'[P], app)
      BY <2>2, <2>3, <2>4, <3>4, TameMoment DEF OnlyPeripheralAsks
    <3> QED
      BY <1>1, <1>3, <1>4, <3>3, <3>5, <3>6, <3>7, LegacyCloses
  <2> QED
    BY <2>1, <2>5, <2>6 DEF Failing
<1>6. CASE q = P
  <2>1. Refusing(sm[C], sm[P], net[C], net[P])
    BY <1>1, <1>6, PeripheralHears DEF KeyTypes
  <2>2. sm[C].state = "idle" /\ net[C] = <<>> /\ net[P] = <<Notice("failed")>>
    BY <2>1 DEF Refusing
  <2>3. /\ sm'[P] = Failed(sm[P]) /\ sm'[C] = sm[C] /\ net'[P] = <<>> /\ net'[C] = <<>>
    BY <1>1, <1>6, <2>2, ShortQueues, PeripheralSpeaks
  <2>4. sm'[P].state \in Resting /\ sm'[P].state = "idle" /\ sm'[C].state \in Resting
    BY <1>2, <1>6, <2>2, <2>3, RestingStates
  <2>5. Rest(sm'[C], sm'[P], net'[C], net'[P], session, consent, par)
    BY <2>3, <2>4 DEF Rest, Apart
  <2>6. Moment(sm'[C], sm'[P], net'[C], net'[P], key', session', consent', par)
    BY <1>1, <2>5 DEF Moment
  <2>7. Listening(sm'[C], sm'[P], net'[C], net'[P], app)
    <3>1. /\ <<Notice("failed"), Notice("security_request")>> # <<>>
          /\ <<Notice("security_request")>> # <<>> /\ <<Notice("failed")>> # <<>>
      BY ShortQueues
    <3> QED
      BY <2>3, <3>1 DEF Listening, Asking, Refusing
  <2>8. Alone(C) => OnlyCentralAsks(sm'[C], app)
    BY <2>3, TameMoment
  <2>9. Alone(P) => OnlyPeripheralAsks(sm'[C], sm'[P], net'[C], net'[P], app)
    <3>1. Free(sm'[C], sm'[P], net'[C], net'[P])
      BY <2>3, <2>4 DEF Free
    <3> QED
      BY <2>2, <2>3, <3>1, TameMoment DEF OnlyPeripheralAsks
  <2> QED
    BY <1>1, <1>3, <1>4, <2>6, <2>7, <2>8, <2>9, LegacyCloses
<1> QED
  BY <1>5, <1>6, TwoPeers

\* Only a request of the central comes where it is not expected: the
\* peripheral waits for keys that will not come.
LEMMA UnexpectedLegacy ==
  ASSUME Tame, NEW q \in Peers, Unexpected(q)
  PROVE  LegacyInv'
<1>1. PICK t \in DOMAIN Expected : Received(q, t) /\ sm[q].state \notin Expected[t]
  BY DEF Unexpected
<1>2. net[q] # <<>> /\ Head(net[q]).t = t /\ Refuse(q) /\ Only_sm_net
  BY <1>1 DEF Unexpected, Received
<1>3. /\ t \in {"security_request", "pairing_request", "pairing_response", "confirm", "random",
                "dhkey_check"}
      /\ t = "security_request" => sm[q].state \notin Resting
      /\ t = "pairing_response" => sm[q].state # "pairing_rsp"
      /\ t = "confirm" => sm[q].state \notin {"pairing_req", "legacy_confirm_sent"}
      /\ t = "random" => sm[q].state \notin {"legacy_confirm_sent", "legacy_random_sent"}
  BY <1>1 DEF Expected
<1>4. CASE q = C
  <2>1. t # "security_request"
    BY <1>2, <1>3, <1>4, CentralHears DEF KeyTypes, Asking
  <2>2. t # "pairing_response"
    BY <1>2, <1>3, <1>4, CentralHears DEF KeyTypes, Responding, Initiating
  <2>3. t # "pairing_request"
    BY <1>2, <1>4, CentralHears DEF KeyTypes
  <2> QED
    BY <1>2, <1>3, <1>4, <2>1, <2>2, <2>3, LegacyStates
<1>5. CASE q = P
  <2>1. t = "pairing_request"
    <3>1. t # "security_request" /\ t # "pairing_response"
      BY <1>2, <1>5, PeripheralHears DEF KeyTypes
    <3> QED
      BY <1>2, <1>3, <1>5, <3>1, LegacyStates
  <2>2. /\ Requesting(sm[C], sm[P], net[C], net[P], session, consent, par)
        /\ net[P] = <<Pdu("pairing_request", [id |-> sm[C].id, par |-> par[C]])>>
    BY <1>2, <1>5, <2>1, PeripheralHears DEF KeyTypes
  <2>3. net[C] = <<>> /\ sm[C].state = "pairing_rsp" /\ Tail(net[P]) = <<>>
    BY <2>2, ShortQueues DEF Requesting, Initiating
  <2> QED
    BY <1>2, <1>5, <2>3, PeripheralFails
<1> QED
  BY <1>4, <1>5, TwoPeers

-----------------------------------------------------------------------------
(* The applications                                                        *)

\* An application only runs on a side that may pair.
LEMMA Runs ==
  ASSUME Tame, NEW q \in Peers, app[q] # "idle" \/ calls[q] < scenario.limit[q]
  PROVE  /\ q = C => Alone(C) /\ ~Alone(P) /\ OnlyCentralAsks(sm[C], app)
         /\ q = P => /\ Alone(P) /\ ~Alone(C)
                     /\ OnlyPeripheralAsks(sm[C], sm[P], net[C], net[P], app)
<1>1. \A r \in Peers : calls[r] \in 0..scenario.limit[r]
  BY DEF Tame, Inv, Threads
<1>2. ASSUME NEW r \in Peers, scenario.limit[r] = 0
      PROVE  ~(calls[r] < scenario.limit[r])
  BY <1>1, <1>2
<1>3. (Alone(C) <=> scenario.limit[P] = 0) /\ (Alone(P) <=> scenario.limit[C] = 0)
  BY TwoPeers DEF Alone
<1>4. ASSUME q = C
      PROVE  ~Alone(P)
  BY <1>2, <1>3, <1>4, TameMoment, TwoPeers DEF OnlyPeripheralAsks
<1>5. ASSUME q = P
      PROVE  ~Alone(C)
  BY <1>2, <1>3, <1>5, TameMoment, TwoPeers DEF OnlyCentralAsks
<1> QED
  BY <1>4, <1>5, TameMoment

\* What a step of an application must show.
LEMMA ApplicationCloses ==
  ASSUME Tame, UNCHANGED <<scenario, key, session, consent, bonds>>, DOMAIN app' = Peers,
         Moment(sm'[C], sm'[P], net'[C], net'[P], key, session, consent, par),
         Listening(sm'[C], sm'[P], net'[C], net'[P], app'),
         Alone(C) => OnlyCentralAsks(sm'[C], app'),
         Alone(P) => OnlyPeripheralAsks(sm'[C], sm'[P], net'[C], net'[P], app')
  PROVE  LegacyInv'
<1>1. par' = par /\ (Alone(C)' <=> Alone(C)) /\ (Alone(P)' <=> Alone(P))
  BY DEF par, Alone
<1>2. DOMAIN key' = Peers /\ DOMAIN session' = Peers
  BY TameTypes
<1>3. Kept(C, P, bonds', consent', par) /\ Kept(P, C, bonds', consent', par)
  BY TameMoment
<1> QED
  BY <1>1, <1>2, <1>3 DEF LegacyInv, Legacy

\* The application of the central runs on where no pairing goes on.
LEMMA CentralAtRest ==
  ASSUME Tame, app[P] = "idle", sm[C].state \in Resting
  PROVE  /\ Rest(sm[C], sm[P], net[C], net[P], session, consent, par)
         /\ net[C] = <<>> /\ Apart(sm[P], net[P], session, consent, par)
<1>1. ~Asking(sm[C], sm[P], net[C], net[P]) /\ ~Refusing(sm[C], sm[P], net[C], net[P])
  BY TameMoment DEF Listening
<1>2. /\ sm[C].state \notin {"pairing_rsp", "legacy_confirm_sent", "legacy_random_sent",
                             "legacy_random_recvd"}
  BY RestingStates
<1>3. Rest(sm[C], sm[P], net[C], net[P], session, consent, par)
  BY <1>1, <1>2, TameMoment DEF Moment, Failing, Requesting, Initiating, Responding, Committing,
     Confirming, Revealing, Accepting, Encrypting, Distributing
<1> QED
  BY <1>3 DEF Rest

\* That of the peripheral too, or a failure is on its way to the central.
LEMMA PeripheralAtRest ==
  ASSUME Tame, Free(sm[C], sm[P], net[C], net[P])
  PROVE  /\ sm[P].state \in Resting /\ net[P] = <<>>
         /\ \/ sm[C].state \in Resting /\ net[C] = <<>>
            \/ /\ net[C] = <<Notice("failed")>>
               /\ sm[C].state \in {"pairing_rsp", "legacy_random_sent"} /\ sm[P].state = "idle"
<1>1. ASSUME net[C] = <<Notice("failed")>>
      PROVE  Failing(sm[C], sm[P], net[C], net[P])
  <2>1. net[C] # <<>> /\ Head(net[C]).t = "failed"
    BY <1>1, ShortQueues, Spoken
  <2> QED
    BY <2>1, CentralHears DEF KeyTypes
<1> QED
  BY <1>1 DEF Free, Failing

\* Nothing the peripheral asked for is in progress.
LEMMA NotListening ==
  ASSUME Tame, app[P] # "waiting" \/ sm[P].failed
  PROVE  /\ ~Asking(sm[C], sm[P], net[C], net[P]) /\ ~Refusing(sm[C], sm[P], net[C], net[P])
         /\ net[C] # <<Notice("failed"), Notice("security_request")>>
  BY TameMoment DEF Listening

LEMMA DistinctQueues ==
  /\ <<Notice("failed"), Notice("security_request")>> # <<>>
  /\ <<Notice("security_request")>> # <<>> /\ <<Notice("failed")>> # <<>>
  /\ <<Notice("failed")>> # <<Notice("security_request")>>
  /\ <<Notice("failed")>> # <<Notice("failed"), Notice("security_request")>>
  /\ Append(<<>>, Notice("security_request")) = <<Notice("security_request")>>
  /\ Append(<<Notice("failed")>>, Notice("security_request"))
       = <<Notice("failed"), Notice("security_request")>>
<1>1. Head(<<Notice("failed")>>) # Head(<<Notice("security_request")>>)
  BY ShortQueues, Spoken
<1>2. Tail(<<Notice("failed")>>) # Tail(<<Notice("failed"), Notice("security_request")>>)
  BY ShortQueues
<1>3. \A x : Append(<<>>, x) = <<x>>
  OBVIOUS
<1>4. ASSUME NEW x, NEW y
      PROVE  Append(<<x>>, y) = <<x, y>>
  <2> DEFINE s == <<x>>
             w == <<x, y>>
  <2>1. /\ s \in Seq({x, y}) /\ Len(s) = 1 /\ s[1] = x /\ y \in {x, y}
        /\ w \in Seq({x, y}) /\ Len(w) = 2 /\ w[1] = x /\ w[2] = y
    OBVIOUS
  <2> HIDE DEF s, w
  <2> DEFINE r == Append(s, y)
             T == {x, y}
  <2>2. s \in Seq(T) /\ y \in T
    BY <2>1
  <2> HIDE DEF T
  <2>3. /\ r \in Seq(T) /\ Len(r) = Len(s) + 1 /\ r[Len(s) + 1] = y
        /\ \A i \in 1..Len(s) : r[i] = s[i]
    BY <2>2, AppendProperties
  <2>4. Append(s, y) = w
    BY <2>1, <2>3 DEF T
  <2> QED
    BY <2>4 DEF s, w
<1> QED
  BY <1>1, <1>2, <1>3, <1>4, ShortQueues

LEMMA StartAtCentralLegacy ==
  ASSUME Tame, Start(C)
  PROVE  LegacyInv'
<1>1. /\ app[C] = "checked" /\ app' = [app EXCEPT ![C] = "waiting"]
      /\ sm' = [sm EXCEPT ![C] = Initiate(C)]
      /\ net' = [net EXCEPT ![P] = Append(@, PairingRequest)]
      /\ UNCHANGED <<scenario, key, session, bonds, consent>>
  <2>1. C = "central" /\ C # "peripheral" /\ Other(C) = P
    BY TwoPeers DEF C
  <2> QED
    BY <2>1 DEF Start, link
<1> DEFINE s == Initiate(C)
<1>2. /\ sm'[C] = s /\ sm'[P] = sm[P] /\ net'[C] = net[C]
      /\ net'[P] = Append(net[P], PairingRequest)
      /\ app'[C] = "waiting" /\ app'[P] = app[P] /\ DOMAIN app' = Peers
  BY <1>1, TameTypes, TwoPeers
<1>3. ~Alone(P) /\ app[P] = "idle" /\ sm[C].state \in Resting
  BY <1>1, Runs, TwoPeers DEF OnlyCentralAsks
<1>4. net[C] = <<>> /\ Apart(sm[P], net[P], session, consent, par)
  BY <1>3, CentralAtRest
<1>5. /\ s.state = "pairing_rsp" /\ s.ipar = par[C] /\ s.id = requests + 1 /\ ~s.failed
      /\ Ungenerated(s) /\ s.got = NoKeys
  BY Cleared DEF Initiate, Fields, Ungenerated
<1>6. PairingRequest = Pdu("pairing_request", [id |-> s.id, par |-> par[C]])
  BY <1>5 DEF PairingRequest, C
<1> HIDE DEF s
<1>7. Requesting(s, sm[P], <<>>, Append(net[P], PairingRequest), session, consent, par)
  <2>1. Initiating(s, par)
    BY <1>5 DEF Initiating
  <2>2. PICK S : net[P] \in Seq(S)
    BY TameTypes, TwoPeers
  <2> QED
    BY <1>4, <1>6, <2>1, <2>2, RequestingOf
<1>8. Moment(sm'[C], sm'[P], net'[C], net'[P], key, session, consent, par)
  BY <1>2, <1>4, <1>7 DEF Moment
<1>9. Listening(sm'[C], sm'[P], net'[C], net'[P], app')
  BY <1>2, <1>4, <1>5, DistinctQueues DEF Listening, Asking, Refusing
<1>10. OnlyCentralAsks(sm'[C], app')
  BY <1>2, <1>3, <1>5 DEF OnlyCentralAsks
<1> QED
  BY <1>1, <1>2, <1>3, <1>8, <1>9, <1>10, ApplicationCloses

LEMMA StartAtPeripheralLegacy ==
  ASSUME Tame, Start(P)
  PROVE  LegacyInv'
<1>1. /\ app[P] = "checked" /\ app' = [app EXCEPT ![P] = "waiting"]
      /\ sm' = [sm EXCEPT ![P] = Reset(sm[P])]
      /\ net' = [net EXCEPT ![C] = Append(@, Notice("security_request"))]
      /\ UNCHANGED <<scenario, key, session, bonds, consent>>
  <2>1. P # "central" /\ P = "peripheral" /\ Other(P) = C
    BY TwoPeers DEF P
  <2> QED
    BY <2>1 DEF Start, link
<1> DEFINE s == Reset(sm[P])
<1>2. /\ sm'[P] = s /\ sm'[C] = sm[C] /\ net'[P] = net[P]
      /\ net'[C] = Append(net[C], Notice("security_request"))
      /\ app'[P] = "waiting" /\ app'[C] = app[C] /\ DOMAIN app' = Peers
  BY <1>1, TameTypes, TwoPeers
<1>3. /\ ~Alone(C) /\ app[C] = "idle" /\ Free(sm[C], sm[P], net[C], net[P])
  BY <1>1, Runs, TwoPeers DEF OnlyPeripheralAsks
<1>4. s.state = "idle" /\ ~s.failed
  BY Cleared
<1> HIDE DEF s
<1>5. net[P] = <<>>
  BY <1>3, PeripheralAtRest
<1>6. Moment(sm'[C], sm'[P], net'[C], net'[P], key, session, consent, par)
  <2>1. CASE sm[C].state \in Resting /\ net[C] = <<>>
    <3>1. Asking(sm[C], s, net'[C], <<>>)
      BY <1>2, <1>4, <2>1, DistinctQueues DEF Asking
    <3> QED
      BY <1>2, <1>5, <3>1 DEF Moment
  <2>2. CASE net[C] = <<Notice("failed")>>
             /\ sm[C].state \in {"pairing_rsp", "legacy_random_sent"}
    <3>1. Failing(sm[C], s, net'[C], <<>>)
      BY <1>2, <1>4, <2>2, DistinctQueues DEF Failing
    <3> QED
      BY <1>2, <1>5, <3>1 DEF Moment
  <2> QED
    BY <1>3, <2>1, <2>2, PeripheralAtRest
<1>7. Listening(sm'[C], sm'[P], net'[C], net'[P], app')
  BY <1>2, <1>4 DEF Listening
<1>8. OnlyPeripheralAsks(sm'[C], sm'[P], net'[C], net'[P], app')
  BY <1>2, <1>3, <1>4 DEF OnlyPeripheralAsks
<1> QED
  BY <1>1, <1>2, <1>3, <1>6, <1>7, <1>8, ApplicationCloses

\* An application that calls, or polls, leaves all but itself alone.
LEMMA OnlyTheApplication ==
  ASSUME Tame, UNCHANGED <<scenario, sm, net, key, session, consent, bonds>>,
         NEW q \in Peers, app[q] # "idle" \/ calls[q] < scenario.limit[q],
         app' = app \/ \E x : app' = [app EXCEPT ![q] = x],
         q = C => sm[C].state \in Resting,
         q = P => /\ Free(sm[C], sm[P], net[C], net[P])
                  /\ ~Asking(sm[C], sm[P], net[C], net[P])
                  /\ ~Refusing(sm[C], sm[P], net[C], net[P])
                  /\ net[C] # <<Notice("failed"), Notice("security_request")>>
  PROVE  LegacyInv'
<1>1. /\ DOMAIN app' = Peers
      /\ q = C => app'[P] = app[P]
      /\ q = P => app'[C] = app[C]
  BY TameTypes, TwoPeers
<1>2. Listening(sm[C], sm[P], net[C], net[P], app')
  BY <1>1, TameMoment, TwoPeers DEF Listening
<1>3. Alone(C) => OnlyCentralAsks(sm[C], app')
  BY <1>1, Runs, TwoPeers DEF OnlyCentralAsks
<1>4. Alone(P) => OnlyPeripheralAsks(sm[C], sm[P], net[C], net[P], app')
  BY <1>1, Runs, TwoPeers DEF OnlyPeripheralAsks
<1> QED
  BY <1>1, <1>2, <1>3, <1>4, TameMoment, ApplicationCloses

LEMMA PollDoneLegacy ==
  ASSUME Tame, NEW q \in Peers, PollDone(q)
  PROVE  LegacyInv'
<1>1. /\ app[q] = "waiting" /\ sm[q].state = "done" /\ app' = [app EXCEPT ![q] = "polled"]
      /\ UNCHANGED <<scenario, sm, net, key, session, consent, bonds>>
  BY DEF PollDone, link, ghosts
<1>2. q = C => sm[C].state \in Resting
  BY <1>1, RestingStates
<1>3. ASSUME q = P
      PROVE  /\ Free(sm[C], sm[P], net[C], net[P])
             /\ ~Asking(sm[C], sm[P], net[C], net[P]) /\ ~Refusing(sm[C], sm[P], net[C], net[P])
             /\ net[C] # <<Notice("failed"), Notice("security_request")>>
  <2>1. Free(sm[C], sm[P], net[C], net[P])
    BY <1>1, <1>3, Runs DEF OnlyPeripheralAsks
  <2>2. sm[P].state # "idle"
    BY <1>1, <1>3
  <2>3. net[C] = <<>>
    BY <2>1, <2>2, PeripheralAtRest
  <2> QED
    BY <2>1, <2>2, <2>3, DistinctQueues DEF Asking, Refusing
<1> QED
  BY <1>1, <1>2, <1>3, OnlyTheApplication

LEMMA PollFailedLegacy ==
  ASSUME Tame, NEW q \in Peers, PollFailed(q)
  PROVE  LegacyInv'
<1>1. /\ app[q] = "waiting" /\ sm[q].failed /\ app' = [app EXCEPT ![q] = "idle"]
      /\ UNCHANGED <<scenario, sm, net, key, session, consent, bonds>>
  BY DEF PollFailed, link, ghosts
<1>2. q = C => sm[C].state \in Resting
  BY <1>1, Runs DEF OnlyCentralAsks
<1>3. q = P => Free(sm[C], sm[P], net[C], net[P])
  BY <1>1, Runs DEF OnlyPeripheralAsks
<1> QED
  BY <1>1, <1>2, <1>3, NotListening, OnlyTheApplication

LEMMA CallLegacy ==
  ASSUME Tame, NEW q \in Peers, Call(q)
  PROVE  LegacyInv'
<1>1. /\ app[q] = "idle" /\ calls[q] < scenario.limit[q]
      /\ app' = app \/ app' = [app EXCEPT ![q] = "checked"]
      /\ UNCHANGED <<scenario, sm, net, key, session, consent, bonds>>
  BY DEF Call, link, ghosts
<1>2. q = C => sm[C].state \in Resting
  BY <1>1, Runs DEF OnlyCentralAsks
<1>3. q = P => Free(sm[C], sm[P], net[C], net[P])
  BY <1>1, Runs DEF OnlyPeripheralAsks
<1> QED
  BY <1>1, <1>2, <1>3, NotListening, OnlyTheApplication

LEMMA ResetDoneLegacy ==
  ASSUME Tame, NEW q \in Peers, ResetDone(q)
  PROVE  LegacyInv'
<1>1. /\ app[q] = "polled" /\ app' = [app EXCEPT ![q] = "idle"]
      /\ sm' = [sm EXCEPT ![q] = Reset(@)]
      /\ UNCHANGED <<scenario, net, key, session, consent, bonds>>
  BY DEF ResetDone, link, ghosts
<1> DEFINE s == Reset(sm[q])
<1>2. sm'[q] = s /\ app'[q] = "idle" /\ DOMAIN app' = Peers
  BY <1>1, TameTypes
<1>3. ASSUME NEW r \in Peers, r # q
      PROVE  sm'[r] = sm[r] /\ app'[r] = app[r]
  BY <1>1, <1>3, TameTypes
<1>4. s.state = "idle" /\ s.state \in Resting /\ ~s.failed
  BY Cleared, RestingStates
<1> HIDE DEF s
<1>5. CASE q = C
  <2>1. ~Alone(P) /\ app[P] = "idle" /\ sm[C].state \in Resting
    BY <1>1, <1>5, Runs DEF OnlyCentralAsks
  <2>2. net[C] = <<>> /\ Apart(sm[P], net[P], session, consent, par)
    BY <2>1, CentralAtRest
  <2>3. sm'[C] = s /\ sm'[P] = sm[P] /\ app'[P] = app[P]
    BY <1>2, <1>3, <1>5, TwoPeers
  <2>4. Rest(sm'[C], sm'[P], net'[C], net'[P], session, consent, par)
    BY <1>1, <1>4, <2>2, <2>3 DEF Rest
  <2>5. Listening(sm'[C], sm'[P], net'[C], net'[P], app')
    <3>1. sm[P].state = "idle" => net[P] = <<>>
      BY <2>2 DEF Apart
    <3> QED
      BY <1>1, <2>2, <2>3, <3>1, DistinctQueues DEF Listening, Asking, Refusing
  <2>6. OnlyCentralAsks(sm'[C], app')
    BY <1>4, <2>1, <2>3 DEF OnlyCentralAsks
  <2> QED
    BY <1>1, <1>2, <2>1, <2>4, <2>5, <2>6, ApplicationCloses DEF Moment
<1>6. CASE q = P
  <2>1. ~Alone(C) /\ app[C] = "idle" /\ Free(sm[C], sm[P], net[C], net[P])
    BY <1>1, <1>6, Runs DEF OnlyPeripheralAsks
  <2>2. sm'[P] = s /\ sm'[C] = sm[C] /\ app'[C] = app[C]
    BY <1>2, <1>3, <1>6, TwoPeers
  <2>3. net[P] = <<>>
    BY <2>1, PeripheralAtRest
  <2>4. Moment(sm'[C], sm'[P], net'[C], net'[P], key, session, consent, par)
    <3>1. CASE sm[C].state \in Resting /\ net[C] = <<>>
      <4>1. Rest(sm[C], s, <<>>, <<>>, session, consent, par)
        BY <1>4, <3>1 DEF Rest, Apart
      <4> QED
        BY <1>1, <2>2, <2>3, <3>1, <4>1 DEF Moment
    <3>2. CASE net[C] = <<Notice("failed")>>
               /\ sm[C].state \in {"pairing_rsp", "legacy_random_sent"}
      <4>1. Failing(sm[C], s, net[C], <<>>)
        BY <1>4, <3>2 DEF Failing
      <4> QED
        BY <1>1, <2>2, <2>3, <4>1 DEF Moment
    <3> QED
      BY <2>1, <3>1, <3>2, PeripheralAtRest
  <2>5. net[C] = <<>> \/ net[C] = <<Notice("failed")>>
    BY <2>1, PeripheralAtRest
  <2>6. Listening(sm'[C], sm'[P], net'[C], net'[P], app')
    BY <1>1, <2>3, <2>5, DistinctQueues DEF Listening, Asking, Refusing
  <2>7. Free(sm'[C], sm'[P], net'[C], net'[P])
    BY <1>1, <1>4, <2>1, <2>2 DEF Free
  <2>8. OnlyPeripheralAsks(sm'[C], sm'[P], net'[C], net'[P], app')
    BY <1>4, <2>1, <2>2, <2>7 DEF OnlyPeripheralAsks
  <2> QED
    BY <1>1, <1>2, <2>1, <2>4, <2>6, <2>8, ApplicationCloses
<1> QED
  BY <1>5, <1>6, TwoPeers

-----------------------------------------------------------------------------
(* The invariant of legacy pairings                                        *)

LEMMA MessageLegacy ==
  ASSUME Tame, NEW q \in Peers, Message(q)
  PROVE  LegacyInv'
  BY NoLescPdu, SecurityRequestLegacy, PairingRequestLegacy, PairingResponseLegacy,
     DeclinedLegacy, LegacyConfirmLegacy, RandomOfInitiatorLegacy, RandomOfResponderLegacy,
     KeyLegacy, EncReqLegacy, EncRspLegacy, StartEncReqLegacy, StartEncRspLegacy, FailedLegacy,
     UnexpectedLegacy DEF Message

LEMMA LegacyNext ==
  ASSUME Tame, [Next]_vars
  PROVE  LegacyInv'
<1>1. ASSUME NEW q \in Peers, Start(q)
      PROVE  LegacyInv'
  BY <1>1, TwoPeers, StartAtCentralLegacy, StartAtPeripheralLegacy
<1>2. CASE UNCHANGED vars
  <2>1. UNCHANGED <<scenario, sm, net, key, session, consent, bonds, app>>
    BY <1>2 DEF vars
  <2> QED
    BY <2>1, TameTypes, TameMoment, ApplicationCloses
<1> QED
  BY <1>1, <1>2, MessageLegacy, PollDoneLegacy, PollFailedLegacy, ResetDoneLegacy, CallLegacy
     DEF Next, Application

LEMMA LegacyInit ==
  ASSUME Init
  PROVE  LegacyInv
<1>1. /\ sm[C] = Fresh /\ sm[P] = Fresh /\ net[C] = <<>> /\ net[P] = <<>>
      /\ bonds[C] = {} /\ bonds[P] = {} /\ app[C] = "idle" /\ app[P] = "idle"
      /\ DOMAIN key = Peers /\ DOMAIN session = Peers /\ DOMAIN app = Peers
  BY TwoPeers DEF Init
<1>2. Fresh.state = "idle" /\ Fresh.state \in Resting
  BY DEF Fresh, Resting
<1>3. Moment(sm[C], sm[P], net[C], net[P], key, session, consent, par)
  BY <1>1, <1>2 DEF Moment, Rest, Apart
<1>4. Kept(C, P, bonds, consent, par) /\ Kept(P, C, bonds, consent, par)
  BY <1>1 DEF Kept
<1>5. Listening(sm[C], sm[P], net[C], net[P], app)
  BY <1>1, DistinctQueues DEF Listening, Asking, Refusing
<1>6. OnlyCentralAsks(sm[C], app) /\ OnlyPeripheralAsks(sm[C], sm[P], net[C], net[P], app)
  BY <1>1, <1>2 DEF OnlyCentralAsks, OnlyPeripheralAsks, Free
<1> QED
  BY <1>1, <1>3, <1>4, <1>5, <1>6 DEF LegacyInv, Legacy

LEMMA SpecLegacy == PairingAssumption => (Spec => [](Inv /\ (OneAsks => LegacyInv)))
<1> SUFFICES ASSUME PairingAssumption PROVE Spec => [](Inv /\ (OneAsks => LegacyInv))
  OBVIOUS
<1>1. Init => Inv /\ (OneAsks => LegacyInv)
  BY InvInit, LegacyInit
<1>2. Inv /\ (OneAsks => LegacyInv) /\ [Next]_vars => (Inv /\ (OneAsks => LegacyInv))'
  <2> SUFFICES ASSUME Inv, OneAsks => LegacyInv, [Next]_vars
               PROVE  (Inv /\ (OneAsks => LegacyInv))'
    OBVIOUS
  <2>1. Inv'
    BY InvNext
  <2>2. OneAsks' => OneAsks
    BY ScenarioFixed DEF OneAsks, BothLesc, Alone, par
  <2>3. OneAsks => LegacyInv'
    BY LegacyNext DEF Tame
  <2> QED
    BY <2>1, <2>2, <2>3
<1> QED
  BY <1>1, <1>2, PTL DEF Spec

-----------------------------------------------------------------------------
(* What it promises                                                        *)

\* Keys are on their way only where both sides encrypt with the same key.
LEMMA LegacyKeysEncrypted ==
  ASSUME Tame, NEW p \in Peers, NEW i \in 1..Len(net[p]),
         net[p][i].t \in KeyTypes \cup {"start_enc_rsp"}
  PROVE  SameSession(session)
<1>1. /\ 1..Len(<<>>) = {}
      /\ \A x : Len(<<x>>) = 1 /\ <<x>>[1] = x
      /\ \A x, y : Len(<<x, y>>) = 2 /\ <<x, y>>[1] = x /\ <<x, y>>[2] = y
  OBVIOUS
<1>2. \A j : (j \in 1..1 => j = 1) /\ (j \in 1..2 => j = 1 \/ j = 2)
  OBVIOUS
<1>3. ASSUME NEW x, net[p] = <<x>>
      PROVE  x.t \in KeyTypes \cup {"start_enc_rsp"}
  BY <1>1, <1>2, <1>3
<1>4. ASSUME NEW x, NEW y, net[p] = <<x, y>>
      PROVE  x.t \in KeyTypes \cup {"start_enc_rsp"} \/ y.t \in KeyTypes \cup {"start_enc_rsp"}
  BY <1>1, <1>2, <1>4
<1>5. net[p] # <<>>
  BY <1>1
<1> DEFINE K == KeyTypes \cup {"start_enc_rsp"}
<1>6. K \cap {"security_request", "failed", "pairing_request", "pairing_response", "confirm",
              "random", "enc_req", "enc_rsp", "start_enc_req"} = {}
  BY DEF KeyTypes
<1> HIDE DEF K
<1>7. CASE p = C
  <2>1. ~Asking(sm[C], sm[P], net[C], net[P])
    BY <1>3, <1>6, <1>7, Spoken DEF Asking, K
  <2>2. ~Failing(sm[C], sm[P], net[C], net[P])
    BY <1>3, <1>4, <1>6, <1>7, Spoken DEF Failing, K
  <2>3. ~Responding(sm[C], sm[P], net[C], net[P], consent, par)
    BY <1>3, <1>6, <1>7, Spoken DEF Responding, K
  <2>4. ~Confirming(sm[C], sm[P], net[C], net[P]) /\ ~Accepting(sm[C], sm[P], net[C], net[P], key)
    BY <1>3, <1>6, <1>7, Spoken DEF Confirming, Accepting, K
  <2>5. /\ net[C] # <<Notice("enc_rsp"), Notice("start_enc_req")>>
        /\ net[C] # <<Notice("start_enc_req")>>
    BY <1>3, <1>4, <1>6, <1>7, Spoken DEF K
  <2>6. ~Encrypting(sm[C], sm[P], net[C], net[P], key, session, consent, par)
    BY <1>5, <1>7, <2>5 DEF Encrypting
  <2> QED
    BY <1>5, <1>7, <2>1, <2>2, <2>3, <2>4, <2>6, CentralHears DEF Distributing
<1>8. CASE p = P
  <2>1. ~Refusing(sm[C], sm[P], net[C], net[P])
    BY <1>3, <1>6, <1>8, Spoken DEF Refusing, K
  <2>2. ~Committing(sm[C], sm[P], net[C], net[P]) /\ ~Revealing(sm[C], sm[P], net[C], net[P])
    BY <1>3, <1>6, <1>8, Spoken DEF Committing, Revealing, K
  <2>3. net[P] # <<Notice("enc_req")>>
    BY <1>3, <1>6, <1>8, Spoken DEF K
  <2>4. Encrypting(sm[C], sm[P], net[C], net[P], key, session, consent, par) => SameSession(session)
    BY <1>5, <1>8, <2>3 DEF Encrypting
  <2>5. net[P] # <<Pdu("pairing_request", [id |-> sm[C].id, par |-> par[C]])>>
    <3> DEFINE x == Pdu("pairing_request", [id |-> sm[C].id, par |-> par[C]])
    <3>1. x.t = "pairing_request"
      BY Spoken
    <3> HIDE DEF x
    <3>2. net[P] # <<x>>
      BY <1>3, <1>6, <1>8, <3>1 DEF K
    <3> QED
      BY <3>2 DEF x
  <2>6. CASE Head(net[P]).t \in KeyTypes
    <3>1. PICK ks : ks # <<>> /\ Apart(sm[P], ks, session, consent, par)
      BY <1>5, <1>8, <2>6, KeysWaiting
    <3> QED
      BY <3>1 DEF Apart
  <2>7. CASE Head(net[P]).t \notin KeyTypes
    BY <1>5, <1>8, <2>1, <2>2, <2>4, <2>5, <2>7, PeripheralHears
  <2> QED
    BY <2>6, <2>7
<1> QED
  BY <1>7, <1>8, TwoPeers

LEMMA LegacyBondsAgree ==
  ASSUME Tame
  PROVE  BondsAgree
<1> SUFFICES ASSUME NEW p \in Peers, NEW e \in bonds[p], NEW f \in bonds[Other(p)], e.id = f.id
             PROVE  /\ e.auth = f.auth
                    /\ \A k \in {"ltk", "irk", "csrk"} : e.peer[k] # None => e.peer[k] = f.own[k]
  BY DEF BondsAgree
<1>1. Kept(C, P, bonds, consent, par) /\ Kept(P, C, bonds, consent, par)
  BY TameMoment
<1>2. /\ e.auth = Auth(par) /\ f.auth = Auth(par)
      /\ e.peer.ltk \in {None, <<"ltk", Other(p), e.id>>}
      /\ e.peer.irk \in {None, OwnIrk(Other(p), e.id, par)}
      /\ e.peer.csrk \in {None, OwnCsrk(Other(p), e.id, par)}
      /\ f.own.ltk = <<"ltk", Other(p), f.id>>
      /\ f.own.irk = OwnIrk(Other(p), f.id, par) /\ f.own.csrk = OwnCsrk(Other(p), f.id, par)
  BY <1>1, TwoPeers DEF Kept
<1> QED
  BY <1>2

LEMMA LegacyAuthenticated ==
  ASSUME Tame
  PROVE  AuthenticatedByUsers
<1> SUFFICES ASSUME NEW p \in Peers, NEW e \in bonds[p], e.auth
             PROVE  \E k \in Passkeys \cup {0} : {<<q, e.id, k>> : q \in Peers} \subseteq consent
  BY DEF AuthenticatedByUsers
<1>1. Kept(C, P, bonds, consent, par) /\ Kept(P, C, bonds, consent, par)
  BY TameMoment
<1>2. Auth(par) /\ BothDid(e.id, consent, par)
  BY <1>1, TwoPeers DEF Kept
<1>3. PICK k \in Passkeys \cup {0} : <<C, e.id, k>> \in consent /\ <<P, e.id, k>> \in consent
  BY <1>2 DEF BothDid, Pins
<1> QED
  BY <1>3, TwoPeers

-----------------------------------------------------------------------------
(* What pairing promises                                                   *)

LEMMA OverlapsOrNot == NoLegacyOverlap <=> BothLesc \/ \E q \in Peers : Alone(q)
  BY DEF NoLegacyOverlap, BothLesc

\* The keys both sides have given their hardware are the same: in legacy
\* pairings that one application asks for, and between sides that use LE Secure
\* Connections, whatever pairings follow each other, fail or cross.
LEMMA SameKeysGiven == PairingAssumption => (Spec => []KeysGiven)
<1> SUFFICES ASSUME PairingAssumption PROVE Spec => []KeysGiven
  OBVIOUS
<1>1. Inv /\ (OneAsks => LegacyInv) /\ (BothLesc => KeysGiven) => KeysGiven
  <2> SUFFICES ASSUME Inv, OneAsks => LegacyInv, BothLesc => KeysGiven, NoLegacyOverlap,
                      NEW p \in Peers, NEW i \in 1..Len(net[p]),
                      net[p][i].t \in KeyTypes \cup {"start_enc_rsp"}
               PROVE  session["central"] # None /\ session["central"] = session["peripheral"]
    BY DEF KeysGiven
  <2>1. CASE BothLesc
    BY <2>1 DEF KeysGiven
  <2>2. CASE ~BothLesc
    <3>1. Tame
      BY <2>2, OverlapsOrNot DEF Tame, OneAsks
    <3>2. SameSession(session)
      BY <3>1, LegacyKeysEncrypted
    <3> QED
      BY <3>2 DEF SameSession, C, P
  <2> QED
    BY <2>1, <2>2
<1> QED
  BY <1>1, SpecLegacy, LescKeysGiven, PTL

\* A hardware encrypts with the last key it was given, unless one was refused.
Obeyed == ~refused => hardware = session

LEMMA ObeyedNext ==
  ASSUME Obeyed, [Next]_vars
  PROVE  Obeyed'
<1> DEFINE Same == UNCHANGED <<session, hardware, refused>>
<1>1. Same => Obeyed'
  BY DEF Obeyed
<1>2. ASSUME NEW q \in Peers, SetEncryption(q)
      PROVE  Obeyed'
  BY <1>2 DEF SetEncryption, Obeyed
<1>3. ASSUME NEW q \in Peers, Message(q)
      PROVE  Obeyed'
  <2>1. OnSecurityRequest(q) => Same
    BY DEF OnSecurityRequest, Only_sm_net, link, cipher
  <2>2. OnPairingRequest(q) => Same
    BY DEF OnPairingRequest, Only_sm_net, link, cipher
  <2>3. OnPairingResponse(q) => Same
    BY DEF OnPairingResponse, Only_sm_net, link, cipher
  <2>4. Declined(q) => Same
    BY DEF Declined, Only_sm_net, link, cipher
  <2>5. OnLegacyConfirm(q) => Same
    BY DEF OnLegacyConfirm, Only_sm_net, link, cipher
  <2>6. OnLegacyRandomOfInitiator(q) => Same
    BY DEF OnLegacyRandomOfInitiator, Only_sm_net, link, cipher
  <2>7. OnLegacyRandomOfResponder(q) => Same
    BY DEF OnLegacyRandomOfResponder, Only_sm_net, link, cipher
  <2>8. OnPublicKeyOfInitiator(q) => Same
    BY DEF OnPublicKeyOfInitiator, Only_sm_net, link, cipher
  <2>9. OnPublicKeyOfResponder(q) => Same
    BY DEF OnPublicKeyOfResponder, Only_sm_net, link, cipher
  <2>10. OnConfirmOfInitiator(q) => Same
    BY DEF OnConfirmOfInitiator, Only_sm_net, link, cipher
  <2>11. OnConfirmOfResponder(q) => Same
    BY DEF OnConfirmOfResponder, Only_sm_net, link, cipher
  <2>12. OnRandomOfInitiator(q) => Same
    BY DEF OnRandomOfInitiator, Only_sm_net, link, cipher
  <2>13. OnRandomOfResponder(q) => Same
    BY DEF OnRandomOfResponder, Only_sm_net, link, cipher
  <2>14. OnRandomOfRound(q) => Same
    BY DEF OnRandomOfRound, Only_sm_net, link, cipher
  <2>15. OnRandomOfRoundAtResponder(q) => Same
    BY DEF OnRandomOfRoundAtResponder, Only_sm_net, link, cipher
  <2>16. OnDhkeyCheck(q) => Same
    BY DEF OnDhkeyCheck, Only_sm_net, link, cipher
  <2>17. OnKey(q) => Same
    BY DEF OnKey, Only_sm_net, link, cipher
  <2>18. OnStartEncReq(q) => Same
    BY DEF OnStartEncReq, Only_sm_net, link, cipher
  <2>19. OnStartEncRsp(q) => Same
    BY DEF OnStartEncRsp, Only_sm_net, link, cipher
  <2>20. OnFailed(q) => Same
    BY DEF OnFailed, Only_sm_net, link, cipher
  <2>21. Unexpected(q) => Same
    BY DEF Unexpected, Only_sm_net, link, cipher
  <2>22. StrayPublicKey(q) => Same
    BY DEF StrayPublicKey, Only_sm_net, link, cipher
  <2>23. OnEncReq(q) \/ OnEncRsp(q) => Obeyed'
    BY <1>2 DEF OnEncReq, OnEncRsp
  <2> HIDE DEF Same
  <2> QED
    BY <1>1, <1>3, <2>1, <2>2, <2>3, <2>4, <2>5, <2>6, <2>7, <2>8, <2>9, <2>10, <2>11,
       <2>12, <2>13, <2>14, <2>15, <2>16, <2>17, <2>18, <2>19, <2>20, <2>21, <2>22, <2>23 DEF
       Message
<1> QED
  BY <1>1, <1>3
     DEF Next, Application, Start, PollDone, PollFailed, ResetDone, Call, vars, link, cipher

\* A key is sent only once the hardware of both sides encrypts, and with the
\* same key: in legacy pairings that one application asks for, and between
\* sides that use LE Secure Connections, whatever pairings follow each other,
\* fail or cross, until a hardware refuses the key it is given.
THEOREM KeysEncrypted == PairingAssumption => (Spec => []KeysStayEncrypted)
<1> SUFFICES ASSUME PairingAssumption PROVE Spec => []KeysStayEncrypted
  OBVIOUS
<1>1. Init => Obeyed
  BY DEF Init, Obeyed
<1>2. Obeyed /\ [Next]_vars => Obeyed'
  BY ObeyedNext
<1>3. Obeyed /\ KeysGiven => KeysStayEncrypted
  BY DEF Obeyed, KeysGiven, KeysStayEncrypted
<1> QED
  BY <1>1, <1>2, <1>3, SameKeysGiven, PTL DEF Spec

\* The bonds that one pairing leaves on the two sides hold the same keys and
\* the same level of authentication: no key of an earlier attempt is stored for
\* a later one.
THEOREM BondsMatch == PairingAssumption => (Spec => []BondsAgree)
<1> SUFFICES ASSUME PairingAssumption PROVE Spec => []BondsAgree
  OBVIOUS
<1>1. Inv /\ (OneAsks => LegacyInv) /\ (BothLesc => BondsAgree) => BondsAgree
  <2>1. ASSUME ~NoLegacyOverlap PROVE BondsAgree
    BY <2>1 DEF BondsAgree
  <2> QED
    BY <2>1, OverlapsOrNot, LegacyBondsAgree DEF Tame, OneAsks
<1> QED
  BY <1>1, SpecLegacy, LescBondsAgree, PTL

\* A bond marked authenticated has the consent of both users: they compared the
\* same number, or typed the same passkey.
THEOREM UsersAuthenticate == PairingAssumption => (Spec => []AuthenticatedByUsers)
<1> SUFFICES ASSUME PairingAssumption PROVE Spec => []AuthenticatedByUsers
  OBVIOUS
<1>1. Inv /\ (OneAsks => LegacyInv) /\ (BothLesc => AuthenticatedByUsers) => AuthenticatedByUsers
  <2>1. ASSUME ~NoLegacyOverlap PROVE AuthenticatedByUsers
    BY <2>1 DEF AuthenticatedByUsers
  <2> QED
    BY <2>1, OverlapsOrNot, LegacyAuthenticated DEF Tame, OneAsks
<1> QED
  BY <1>1, SpecLegacy, LescAuthenticatedByUsers, PTL

=============================================================================
