---------------------------- MODULE PairingLegacy ----------------------------
(***************************************************************************)
(* What holds of legacy pairings at every step, when the application of    *)
(* one side alone asks for them: the inductive invariant from which        *)
(* Pairing_proofs concludes what PairingLesc is for in the other case.     *)
(*                                                                         *)
(* The two sides then speak in turn.  The invariant is the list of the     *)
(* moments of their conversation, each with the state of both sides and    *)
(* all that is on its way between them.                                    *)
(*                                                                         *)
(* The parameters are named as in PairingLesc: c and p are the states of   *)
(* the central and of the peripheral, a and b the PDUs on their way to the *)
(* central and to the peripheral, k the keys registered, z the keys the    *)
(* hardware encrypts with, n the number of pairings requested, u what the  *)
(* users did, d the bonds, and o the parameters of the two sides.          *)
(***************************************************************************)
EXTENDS PairingLesc

-----------------------------------------------------------------------------
(* The keys that are distributed                                           *)

\* The PDUs that carry the keys of the kinds in K, those that brought the
\* keys g, and those that may carry the keys of side q in pairing i.
Due(K) ==
  (IF "enc" \in K THEN {"encryption_information", "master_identification"} ELSE {})
  \cup (IF "id" \in K THEN {"identity_information", "identity_address"} ELSE {})
  \cup (IF "sign" \in K THEN {"signing_information"} ELSE {})

Brought(g) ==
  (IF g.ltk # None THEN {"encryption_information"} ELSE {})
  \cup (IF g.ediv THEN {"master_identification"} ELSE {})
  \cup (IF g.irk # None THEN {"identity_information"} ELSE {})
  \cup (IF g.address THEN {"identity_address"} ELSE {})
  \cup (IF g.csrk # None THEN {"signing_information"} ELSE {})

Carriers(q, i) ==
  {Pdu("encryption_information", <<"ltk", q, i>>), Notice("master_identification"),
   Pdu("identity_information", <<"irk", q, i>>), Notice("identity_address"),
   Pdu("signing_information", <<"csrk", q, i>>)}

\* The queue s holds, once each, the keys of side q that its peer has not got.
Types(s) == {s[j].t : j \in 1..Len(s)}
Owed(s, q, i, g, o) ==
  /\ s \in Seq(Carriers(q, i))
  /\ \A j, h \in 1..Len(s) : j # h => s[j].t # s[h].t
  /\ Types(s) = Due(o[q].keys) \ Brought(g)

\* The keys g are of side q in pairing i; side q, in state s, has generated
\* its own; it has generated none.
From(g, q, i, o) ==
  g.ltk \in {None, <<"ltk", q, i>>} /\ g.irk \in {None, OwnIrk(q, i, o)}
    /\ g.csrk \in {None, OwnCsrk(q, i, o)}
Own(s, q, o) ==
  s.ltk = <<"ltk", q, s.id>> /\ s.irk = OwnIrk(q, s.id, o) /\ s.csrk = OwnCsrk(q, s.id, o)
Ungenerated(s) == s.ltk = None /\ s.irk = None /\ s.csrk = None

-----------------------------------------------------------------------------
(* The moments of a pairing                                                *)

Paired(s, o)      == s.ipar = o[C] /\ s.rpar = o[P] /\ s.method = Chosen(o)
Entered(s, q, u, o) == Auth(o) => s.tk \in Passkeys /\ <<q, s.id, s.tk>> \in u
SameSession(z)      == z[C] # None /\ z[C] = z[P]

\* The peripheral, with the PDUs b on their way to it, when no pairing goes
\* on: it rests, or waits for keys of the central, which may never come.
Apart(p, b, z, u, o) ==
  \/ p.state \in Resting /\ b = <<>>
  \/ /\ p.state \in {"legacy_random_sent", "distribute"} /\ Paired(p, o)
     /\ Own(p, P, o) /\ From(p.got, C, p.id, o) /\ BothDid(p.id, u, o)
     /\ Owed(b, C, p.id, p.got, o) /\ (b # <<>> => SameSession(z))

Rest(c, p, a, b, z, u, o) == c.state \in Resting /\ a = <<>> /\ Apart(p, b, z, u, o)

Asking(c, p, a, b) ==
  /\ c.state \in Resting /\ a = <<Notice("security_request")>>
  /\ p.state = "idle" /\ b = <<>>

Refusing(c, p, a, b) ==
  c.state = "idle" /\ a = <<>> /\ p.state = "idle" /\ b = <<Notice("failed")>>

Failing(c, p, a, b) ==
  /\ c.state \in {"pairing_rsp", "legacy_random_sent"} /\ p.state = "idle" /\ b = <<>>
  /\ a \in {<<Notice("failed")>>, <<Notice("failed"), Notice("security_request")>>}

\* The request comes behind the keys of the pairing before.
Initiating(c, o) ==
  c.state = "pairing_rsp" /\ c.ipar = o[C] /\ Ungenerated(c) /\ c.got = NoKeys

Requesting(c, p, a, b, z, u, o) ==
  /\ Initiating(c, o) /\ a = <<>> /\ b # <<>>
  /\ b[Len(b)] = Pdu("pairing_request", [id |-> c.id, par |-> o[C]])
  /\ Apart(p, SubSeq(b, 1, Len(b) - 1), z, u, o)

\* The peripheral has answered: it is in the pairing, without keys.
Answering(p, u, o) ==
  Paired(p, o) /\ Entered(p, P, u, o) /\ Ungenerated(p) /\ p.got = NoKeys

Responding(c, p, a, b, u, o) ==
  /\ Initiating(c, o) /\ p.state = "pairing_req" /\ p.id = c.id /\ Answering(p, u, o)
  /\ a = <<Pdu("pairing_response", o[P])>> /\ b = <<>>

\* So is the central.
Together(c, p, u, o) ==
  /\ p.id = c.id /\ Paired(c, o) /\ Paired(p, o) /\ Entered(c, C, u, o) /\ Entered(p, P, u, o)
  /\ Ungenerated(c) /\ Ungenerated(p) /\ c.got = NoKeys /\ p.got = NoKeys

Committing(c, p, a, b) ==
  /\ c.state = "legacy_confirm_sent" /\ p.state = "pairing_req" /\ a = <<>>
  /\ b = <<Pdu("confirm", LegacyConfirm(c.tk, c.irand))>>

Confirming(c, p, a, b) ==
  /\ c.state = "legacy_confirm_sent" /\ p.state = "legacy_confirm_sent"
  /\ p.iconf = LegacyConfirm(c.tk, c.irand)
  /\ a = <<Pdu("confirm", LegacyConfirm(p.tk, p.rrand))>> /\ b = <<>>

Revealing(c, p, a, b) ==
  /\ c.state = "legacy_random_sent" /\ p.state = "legacy_confirm_sent"
  /\ p.iconf = LegacyConfirm(c.tk, c.irand) /\ c.rconf = LegacyConfirm(p.tk, p.rrand)
  /\ a = <<>> /\ b = <<Pdu("random", c.irand)>>

Accepting(c, p, a, b, k) ==
  /\ c.state = "legacy_random_sent" /\ p.state = "legacy_random_sent"
  /\ c.tk = p.tk /\ c.irand = p.irand /\ c.rconf = LegacyConfirm(p.tk, p.rrand)
  /\ k[P] = ShortTermKey(p) /\ a = <<Pdu("random", p.rrand)>> /\ b = <<>>

\* Both values are checked: the users typed the same.
Encrypting(c, p, a, b, k, z, u, o) ==
  /\ c.state = "legacy_random_recvd" /\ p.state = "legacy_random_sent" /\ BothDid(c.id, u, o)
  /\ \/ /\ a = <<>> /\ b = <<Notice("enc_req")>> /\ k[C] # None /\ k[C] = k[P]
     \/ /\ a = <<Notice("enc_rsp"), Notice("start_enc_req")>> /\ b = <<>>
        /\ k[C] # None /\ k[C] = z[P]
     \/ a = <<Notice("start_enc_req")>> /\ b = <<>> /\ SameSession(z)
     \/ a = <<>> /\ b = <<Notice("start_enc_rsp")>> /\ SameSession(z)

Distributing(c, p, a, b, z, u, o) ==
  /\ c.state = "legacy_random_recvd" /\ p.id = c.id /\ Paired(c, o) /\ Ungenerated(c)
  /\ From(c.got, P, c.id, o) /\ BothDid(c.id, u, o)
  /\ p.state \in {"legacy_random_sent", "distribute"} /\ Paired(p, o) /\ Own(p, P, o)
  /\ p.got = NoKeys /\ b = <<>> /\ a # <<>> /\ SameSession(z)
  /\ \/ Head(a) = Notice("start_enc_rsp") /\ c.got = NoKeys /\ Owed(Tail(a), P, c.id, c.got, o)
     \/ Owed(a, P, c.id, c.got, o)

Moment(c, p, a, b, k, z, u, o) ==
  \/ Rest(c, p, a, b, z, u, o) \/ Asking(c, p, a, b) \/ Refusing(c, p, a, b)
  \/ Failing(c, p, a, b) \/ Requesting(c, p, a, b, z, u, o) \/ Responding(c, p, a, b, u, o)
  \/ /\ Together(c, p, u, o)
     /\ \/ Committing(c, p, a, b) \/ Confirming(c, p, a, b) \/ Revealing(c, p, a, b)
        \/ Accepting(c, p, a, b, k) \/ Encrypting(c, p, a, b, k, z, u, o)
  \/ Distributing(c, p, a, b, z, u, o)

-----------------------------------------------------------------------------
(* The bonds, and the applications                                         *)

\* What side q has stored of its pairings with side r.
Kept(q, r, d, u, o) ==
  \A e \in d[q] :
    /\ e.auth = Auth(o) /\ BothDid(e.id, u, o)
    /\ e.own.ltk = <<"ltk", q, e.id>>
    /\ e.own.irk = OwnIrk(q, e.id, o) /\ e.own.csrk = OwnCsrk(q, e.id, o)
    /\ e.peer.ltk \in {None, <<"ltk", r, e.id>>}
    /\ e.peer.irk \in {None, OwnIrk(r, e.id, o)} /\ e.peer.csrk \in {None, OwnCsrk(r, e.id, o)}

\* Nothing goes on, or all that does is a failure the central will learn of.
Free(c, p, a, b) ==
  /\ p.state \in Resting /\ b = <<>>
  /\ (c.state \in Resting /\ a = <<>>) \/ a = <<Notice("failed")>>

\* An application pairs again only once its last pairing is over: g is where
\* each of them is.
OnlyCentralAsks(c, g) ==
  g[P] = "idle" /\ (g[C] # "waiting" \/ c.failed \/ c.state = "done" => c.state \in Resting)

OnlyPeripheralAsks(c, p, a, b, g) ==
  /\ g[C] = "idle" /\ (c.state = "pairing_rsp" => p.state \in {"idle", "pairing_req"})
  /\ g[P] # "waiting" \/ p.failed \/ p.state = "done" => Free(c, p, a, b)

Listening(c, p, a, b, g) ==
  \/ Asking(c, p, a, b) \/ Refusing(c, p, a, b)
  \/ a = <<Notice("failed"), Notice("security_request")>>
  => g[P] = "waiting" /\ ~p.failed

Legacy(c, p, a, b, k, z, u, d, o, g) ==
  /\ Moment(c, p, a, b, k, z, u, o) /\ Kept(C, P, d, u, o) /\ Kept(P, C, d, u, o)
  /\ Listening(c, p, a, b, g)
  /\ Alone(C) => OnlyCentralAsks(c, g)
  /\ Alone(P) => OnlyPeripheralAsks(c, p, a, b, g)

OneAsks == ~BothLesc /\ \E q \in Peers : Alone(q)

LegacyInv ==
  /\ DOMAIN key = Peers /\ DOMAIN session = Peers /\ DOMAIN app = Peers
  /\ Legacy(sm[C], sm[P], net[C], net[P], key, session, consent, bonds, par, app)

\* The invariant as TLC checks it, on any scenario.
LegacyHolds == OneAsks => LegacyInv
=============================================================================
