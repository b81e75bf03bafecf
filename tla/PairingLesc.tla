----------------------------- MODULE PairingLesc -----------------------------
(***************************************************************************)
(* What holds of a pairing with LE Secure Connections at every step: the   *)
(* inductive invariant from which Pairing_proofs concludes that the keys   *)
(* travel encrypted, that the bonds of the two sides agree, and that an    *)
(* authenticated bond has the consent of both users.                       *)
(*                                                                         *)
(* Both applications may pair, refuse and pair again at any time, and no   *)
(* PDU names the pairing it is of.  The invariant therefore says, for the  *)
(* PDUs on their way in each direction, which can be left from an earlier  *)
(* pairing, and why one that is cannot be taken for one of the pairing     *)
(* that goes on.                                                           *)
(*                                                                         *)
(* In what follows c and p are the states of the security managers of the  *)
(* central and of the peripheral, a and b the PDUs on their way to the     *)
(* central and to the peripheral, k the key each side has given to the     *)
(* link layer, z the key each side's hardware encrypts with, n the number  *)
(* of pairings requested, u what the users did, d the bonds and o the      *)
(* parameters of the two sides.                                            *)
(***************************************************************************)
EXTENDS Pairing

-----------------------------------------------------------------------------
(* The order of the PDUs in a queue                                        *)

Elems(s) == {s[i] : i \in 1..Len(s)}
IsQueue(s) == s \in Seq(Elems(s))

\* x comes before y; with no PDU of a type in T between them; x comes with
\* none of T before it; x comes with none of T after it.
Before(s, x, y) == \E i, j \in 1..Len(s) : i < j /\ s[i] = x /\ s[j] = y
Bare(s, T, x, y) ==
  \E i, j \in 1..Len(s) : /\ i < j /\ s[i] = x /\ s[j] = y
                          /\ \A h \in (i + 1)..(j - 1) : s[h].t \notin T
FirstOf(s, T, x) == \E i \in 1..Len(s) : s[i] = x /\ \A h \in 1..(i - 1) : s[h].t \notin T
LastOf(s, T, x)  == \E i \in 1..Len(s) : s[i] = x /\ \A h \in (i + 1)..Len(s) : s[h].t \notin T

\* No PDU has a type in T; none with a type in U follows one with a type in T.
NoneIn(s, T) == \A x \in Elems(s) : x.t \notin T
Never(s, T, U) == \A x, y \in Elems(s) : Before(s, x, y) /\ x.t \in T => y.t \notin U

-----------------------------------------------------------------------------
(* Types of PDUs, and states                                               *)

Req   == {"pairing_request"}
Rsp   == {"pairing_response"}
Pk    == {"public_key"}
Cfm   == {"confirm"}
Dh    == {"dhkey_check"}
EncReq   == {"enc_req"}
EncRsp   == {"enc_rsp"}
StartReq == {"start_enc_req"}
StartRsp == {"start_enc_rsp"}
Keys  == {"identity_information", "identity_address", "signing_information"}

\* What is sent over an encrypted link; what the peripheral sends once the
\* central has asked for encryption; what separates two commitments of the
\* central.
Enc     == StartRsp \cup Keys
Started == EncRsp \cup StartReq \cup Keys
Turn    == {"random", "pairing_request"}

\* What the central sends, and what the peripheral sends.
ToP == Req \cup Pk \cup Cfm \cup Dh \cup EncReq \cup StartRsp \cup Keys \cup {"random", "failed"}
ToC == Rsp \cup Pk \cup Cfm \cup Dh \cup EncRsp \cup StartReq \cup StartRsp \cup Keys
         \cup {"random", "failed", "security_request"}

\* The central from its public key to its check, and once both checks are
\* done; where it has sent no commitment, or the peripheral has answered it.
Mid    == {"pubkey_sent", "pubkey_recvd", "confirm_sent_stage", "random_sent",
           "random_sent_stage", "dhkey_sent"}
Over   == {"dhkey_recvd", "done"}
Turned == {"pairing_rsp", "pubkey_sent", "pubkey_recvd", "random_sent_stage"}

\* The peripheral once it has checked the central, and once its user has
\* been asked.
Late  == {"dhkey_sent", "distribute", "done"}
Asked == {"confirm_sent_stage", "random_sent_stage", "random_sent", "dhkey_sent", "distribute",
          "done"}

-----------------------------------------------------------------------------
(* Pairings, and what belongs to one                                       *)

C == "central"
P == "peripheral"

Chosen(o) == Method(o[C], o[P])
Auth(o)   == Authenticated(Chosen(o))

\* The two public keys of pairing i; what the users are shown or type.
Pair(i)  == {<<C, i>>, <<P, i>>}
Shown(s) == IF s.method.kind = "passkey" THEN s.passkey ELSE 0
Pins     == Passkeys \cup {0}

\* The user of side q, or both users, did in pairing i what an
\* authenticated method asks for.
Consented(q, i, v, u, o) == Auth(o) => v \in Pins /\ <<q, i, v>> \in u
BothDid(i, u, o) == Auth(o) => \E v \in Pins : <<C, i, v>> \in u /\ <<P, i, v>> \in u

OwnIrk(q, i, o)  == IF "id" \in o[q].keys THEN <<"irk", q, i>> ELSE None
OwnCsrk(q, i, o) == IF "sign" \in o[q].keys THEN <<"csrk", q, i>> ELSE None

\* A commitment of the peripheral in pairing i names both public keys: it
\* was sent after the peripheral had received that of the central.
Commits(v, i)   == v[2] = <<P, i>> /\ v[3] = <<C, i>>
Committed(x, i) == x.t \in Cfm /\ Commits(x.v, i)
Linked(c) ==
  /\ c.state \in {"random_sent", "random_sent_stage", "dhkey_sent", "dhkey_recvd", "done"}
  /\ Commits(c.rconf, c.id)

Generated(p, o) == p.irk = OwnIrk(P, p.id, o) /\ p.csrk = OwnCsrk(P, p.id, o)
Keyless(s) == s.irk = None /\ s.csrk = None /\ s.got.irk = None /\ s.got.csrk = None

\* Side q, in state s, has keys of its own and of side r, of its pairing.
KeysKnown(s, q, r, o) ==
  /\ s.irk \in {None, OwnIrk(q, s.id, o)} /\ s.csrk \in {None, OwnCsrk(q, s.id, o)}
  /\ s.got.irk \in {None, OwnIrk(r, s.id, o)} /\ s.got.csrk \in {None, OwnCsrk(r, s.id, o)}

-----------------------------------------------------------------------------
(* Each side                                                               *)

\* The central is in the pairing it asked for last.
CentralOK(c, n, u, o) ==
  /\ c.state \in {"idle", "pairing_rsp"} \cup Mid \cup Over
  /\ c.id \in {0, n} /\ (c.state = "idle" <=> c.id = 0)
  /\ c.state # "idle" => c.ipar = o[C]
  /\ c.state \in {"idle", "pairing_rsp"} => c.rpar = NoParameters
  /\ c.state \in Mid \cup Over => c.rpar = o[P] /\ c.method = Chosen(o) /\ c.own = <<C, c.id>>
  /\ c.state \in (Mid \ {"pubkey_sent"}) \cup Over => \E i \in 1..n : c.peer = <<P, i>>
  /\ c.state \in {"random_sent", "random_sent_stage"} =>
       c.rconf[2] = <<C, c.id>> \/ \E i \in 1..n : Commits(c.rconf, i)
  /\ c.state = "pubkey_recvd" => c.method.kind # "passkey"
  /\ c.state = "random_sent" => c.method.kind # "passkey" \/ c.rconf[2] = <<C, c.id>>
  /\ c.state = "confirm_sent_stage" => c.iconf[2] = <<C, c.id>> \/ c.rconf[2] = <<C, c.id>>
  /\ c.state \in {"dhkey_sent"} \cup Over =>
       /\ Commits(c.rconf, c.id) /\ c.peer = <<P, c.id>>
       /\ c.ltk = c.got.ltk /\ c.ltk # None /\ c.ltk[2] = Pair(c.id)
       /\ Consented(C, c.id, Shown(c), u, o)
  /\ c.state \in {"confirm_sent_stage", "random_sent_stage"} =>
       c.method.kind = "passkey" /\ Consented(C, c.id, c.passkey, u, o)
  /\ c.state \in {"pairing_rsp"} \cup Mid => Keyless(c)
  /\ c.state \in Over => BothDid(c.id, u, o)
  /\ KeysKnown(c, C, P, o)

PeripheralOK(p, n, u, o) ==
  /\ p.state \in {"idle", "pairing_req", "confirm_sent", "pubkey_recvd_stage"} \cup Asked
  /\ p.id \in 0..n /\ (p.state = "idle" <=> p.id = 0)
  /\ p.id # 0 => p.ipar = o[C] /\ p.rpar = o[P] /\ p.method = Chosen(o) /\ p.own = <<P, p.id>>
  /\ p.peer = IF p.state \in {"idle", "pairing_req"} THEN None ELSE <<C, p.id>>
  /\ p.state \in {"confirm_sent", "confirm_sent_stage", "random_sent_stage", "random_sent"} =>
       p.rconf[2] = <<P, p.id>>
  /\ p.state = "pubkey_recvd_stage" => p.round = 1
  /\ p.state \in {"pubkey_recvd_stage", "confirm_sent_stage", "random_sent_stage"} =>
       p.method.kind = "passkey"
  /\ p.state = "confirm_sent" => p.method.kind # "passkey"
  /\ p.state \in Asked => Consented(P, p.id, Shown(p), u, o)
  /\ p.state \notin Late => Keyless(p)
  /\ p.state \in Late =>
       p.ltk = p.got.ltk /\ p.ltk # None /\ p.ltk[2] = Pair(p.id) /\ BothDid(p.id, u, o)
  /\ KeysKnown(p, P, C, o)

-----------------------------------------------------------------------------
(* What is on its way                                                      *)

\* A check of side q, with the role it names, is over the public keys of
\* some pairing its user consented to.
CheckOK(v, q, role, n, u, o) ==
  v[3] = role /\ \E i \in 1..n : v[2][2] = Pair(i) /\ Consented(q, i, v[4], u, o)

ToPeripheral(b, n, u, o) ==
  \A x \in Elems(b) :
    /\ x.t \in ToP
    /\ x.t \in Req => x.v.par = o[C] /\ x.v.id \in 1..n
    /\ x.t \in Pk  => \E i \in 1..n : x.v = <<C, i>>
    /\ x.t \in Dh  => CheckOK(x.v, C, "initiator", n, u, o)

ToCentral(a, n, u, o) ==
  \A x \in Elems(a) :
    /\ x.t \in ToC
    /\ x.t \in Rsp => x.v = o[P]
    /\ x.t \in Pk  => \E i \in 1..n : x.v = <<P, i>>
    /\ x.t \in Cfm => \E i \in 1..n : Commits(x.v, i)
    /\ x.t \in Dh  => CheckOK(x.v, P, "responder", n, u, o)

\* Requests arrive in the order of their pairings; the peripheral is behind
\* those on their way.  Once a commitment of the peripheral to the pairing of
\* the central is on its way, no older request or response is.
Requests(c, p, a, b, n) ==
  /\ \A x, y \in Elems(b) : Before(b, x, y) /\ x.t \in Req /\ y.t \in Req => x.v.id < y.v.id
  /\ \A x \in Elems(b) : x.t \in Req => x.v.id > p.id /\ (LastOf(b, Req, x) => x.v.id = n)
  /\ c.id # 0 /\ NoneIn(b, Req) => p.id \in {0, c.id}
  /\ (\E x \in Elems(a) : Committed(x, c.id)) \/ Linked(c) => NoneIn(b, Req)
  /\ \A x, y \in Elems(a) : Before(a, x, y) /\ Committed(x, c.id) => y.t \notin Rsp
  /\ Linked(c) => NoneIn(a, Rsp)
  /\ c.state = "pairing_rsp" => \A x \in Elems(a) : ~Committed(x, c.id)
  /\ Never(b, Req, EncReq \cup Dh \cup Keys)

\* The peripheral only takes a public key of the pairing it is in.
PublicKeys(c, p, b) ==
  /\ c.state = "pairing_rsp" =>
       /\ \A x \in Elems(b) : x.t \in Pk => x.v # <<C, c.id>>
       /\ p.id = c.id => p.peer = None
  /\ \A x \in Elems(b) : x.t \in Pk /\ FirstOf(b, Req, x) => p.id \in {0, x.v[2]}
  /\ \A x, y \in Elems(b) : Bare(b, Req, x, y) /\ x.t \in Req /\ y.t \in Pk => y.v[2] = x.v.id

\* The central sends no second commitment before its random value, and none
\* before its public key: none is taken where legacy pairing expects one.
RoundsOK(c, p, b) ==
  /\ \A x, y \in Elems(b) : Bare(b, Turn, x, y) /\ x.t \in Cfm => y.t \notin Cfm
  /\ p.state = "confirm_sent_stage" => \A x \in Elems(b) : FirstOf(b, Turn, x) => x.t \notin Cfm
  /\ c.state \in Turned =>
       /\ \A x \in Elems(b) : LastOf(b, Turn, x) => x.t \notin Cfm
       /\ p.state = "confirm_sent_stage" => ~NoneIn(b, Turn)
  /\ \A x, y \in Elems(b) : Bare(b, Pk, x, y) /\ x.t \in Req => y.t \notin Cfm
  /\ p.state = "pairing_req" => \A x \in Elems(b) : FirstOf(b, Pk, x) => x.t \notin Cfm
  /\ c.state \in Mid =>
       /\ \A x \in Elems(b) : LastOf(b, Pk, x) => x.t \notin Req
       /\ p.state = "pairing_req" => ~NoneIn(b, Pk)

\* While a pairing goes on, what an earlier one left behind is taken before
\* the peripheral commits to this one: nothing of an encrypted link, nor any
\* key, is on its way by then.
NothingOld(c, p, a, b) ==
  /\ NoneIn(b, EncReq) /\ NoneIn(a, Started)
  /\ \A x, y \in Elems(b) : Before(b, x, y) /\ x.t \in Pk /\ x.v = <<C, c.id>> => y.t \notin Enc
  /\ p.id = c.id /\ p.peer # None => NoneIn(b, Enc)
  /\ \A x \in Elems(a) : Committed(x, c.id) =>
       NoneIn(b, Enc) /\ \A y \in Elems(a) : Before(a, x, y) => y.t \notin StartRsp
  /\ Linked(c) => NoneIn(b, Enc) /\ NoneIn(a, StartRsp)
  /\ p.state \in Late => p.id = c.id /\ c.state = "dhkey_sent"

Old(c, p, a, b) ==
  /\ c.state \in Mid => NothingOld(c, p, a, b)
  /\ ~NoneIn(a, Rsp) => NoneIn(b, EncReq) /\ p.state \notin Late
  /\ Never(a, Rsp, Started)

\* A check taken for one of the pairing of the central is its own, or the
\* answer of the peripheral to it, over the same key.
Checks(c, p, a, b, k) ==
  /\ Never(b, Dh, Dh)
  /\ ~NoneIn(b, Dh) => NoneIn(a, Rsp) /\ NoneIn(b, EncReq) /\ NoneIn(a, EncRsp)
  /\ \A x \in Elems(b) : x.t \in Dh /\ (c.state \in Mid \/ (c.id # 0 /\ x.v[2][2] = Pair(c.id))) =>
       c.state = "dhkey_sent" /\ x.v = CheckValue(c, "initiator")
  /\ \A x \in Elems(a) : x.t \in Dh /\ c.id # 0 /\ x.v[2][2] = Pair(c.id) =>
       /\ c.state \in {"dhkey_sent"} \cup Over
       /\ c.state = "dhkey_sent" =>
            /\ k[P] = x.v[2] /\ NoneIn(b, Dh)
            /\ p.id = c.id => p.state \in Late /\ p.ltk = x.v[2]
  /\ c.state \in Over /\ p.id = c.id => p.state \in Late /\ p.ltk = c.ltk

-----------------------------------------------------------------------------
(* Keys, encryption and bonds                                              *)

KeyPdu(x, q, i, o) ==
  /\ x.t = "identity_information" => x.v = OwnIrk(q, i, o)
  /\ x.t = "signing_information" => x.v = OwnCsrk(q, i, o)

\* A key a side can take is one of the pairing it is in.
Distribution(c, p, a, b, o) ==
  /\ \A x \in Elems(b) : x.t \in Keys /\ p.id # 0 =>
       /\ p.state \in Late /\ Generated(p, o) /\ KeyPdu(x, C, p.id, o)
       /\ p.id = c.id => c.state = "done"
  /\ c.state \in Over =>
       \A x \in Elems(a) : x.t \in Keys => KeyPdu(x, P, c.id, o) /\ (p.id = c.id => Generated(p, o))

\* The steps of the encryption procedure, each with what both sides have
\* agreed on by then.
Encryption(a, b, k, z) ==
  /\ ~NoneIn(b, EncReq) =>
       /\ Never(b, EncReq, EncReq) /\ NoneIn(a, EncRsp \cup StartReq \cup Enc) /\ NoneIn(b, Enc)
       /\ k[C] # None /\ k[C] = k[P]
  /\ ~NoneIn(a, EncRsp) =>
       /\ Never(a, EncRsp, EncRsp) /\ NoneIn(a, Enc) /\ NoneIn(b, Enc)
       /\ k[C] # None /\ k[C] = z[P]
  /\ Never(a, StartReq, EncRsp)
  /\ ~NoneIn(a, Enc) \/ ~NoneIn(b, Enc) \/ (~NoneIn(a, StartReq) /\ NoneIn(a, EncRsp)) =>
       z[C] # None /\ z[C] = z[P]

\* What side q has stored of its pairings with side r.
StoredOK(s, q, r, d, u, o) ==
  \A e \in d[q] :
    /\ e.auth = Auth(o) /\ BothDid(e.id, u, o)
    /\ e.own.irk = OwnIrk(q, e.id, o) /\ e.own.csrk = OwnCsrk(q, e.id, o)
    /\ e.peer.irk \in {None, OwnIrk(r, e.id, o)} /\ e.peer.csrk \in {None, OwnCsrk(r, e.id, o)}
    /\ e.peer.ltk = e.own.ltk

\* A bond of a pairing has the key the sides still in it have; a pairing
\* that is stored is not asked for again.
Stored(c, p, b, d) ==
  \A q \in Peers : \A e \in d[q] :
    /\ e.id = c.id => c.state \in Over /\ e.own.ltk = c.ltk
    /\ e.id = p.id => p.state \in Late /\ e.own.ltk = p.ltk
    /\ \A f \in d[Other(q)] : e.id = f.id => e.own.ltk = f.own.ltk
    /\ \A x \in Elems(b) : x.t \in Req => x.v.id # e.id

BondsOK(c, p, b, d, u, o) ==
  StoredOK(c, C, P, d, u, o) /\ StoredOK(p, P, C, d, u, o) /\ Stored(c, p, b, d)

-----------------------------------------------------------------------------
(* The invariant                                                           *)

Lesc(c, p, a, b, k, z, n, u, d, o) ==
  /\ n \in Nat /\ IsQueue(a) /\ IsQueue(b)
  /\ CentralOK(c, n, u, o) /\ PeripheralOK(p, n, u, o)
  /\ ToCentral(a, n, u, o) /\ ToPeripheral(b, n, u, o)
  /\ Requests(c, p, a, b, n) /\ PublicKeys(c, p, b) /\ RoundsOK(c, p, b)
  /\ Old(c, p, a, b) /\ Checks(c, p, a, b, k) /\ Distribution(c, p, a, b, o)
  /\ Encryption(a, b, k, z) /\ BondsOK(c, p, b, d, u, o)

BothLesc == \A q \in Peers : par[q].lesc

LescInv ==
  /\ DOMAIN key = Peers /\ DOMAIN session = Peers
  /\ Lesc(sm[C], sm[P], net[C], net[P], key, session, requests, consent, bonds, par)

\* The invariant as TLC checks it, on any scenario.
LescHolds == BothLesc => LescInv
=============================================================================
