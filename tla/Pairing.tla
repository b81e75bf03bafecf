------------------------------- MODULE Pairing -------------------------------
(***************************************************************************)
(* Bluetooth LE pairing between a central and a peripheral that both run   *)
(* this code: the security manager (whad/ble/stack/smp), the encryption    *)
(* procedure of the link layer manager (whad/ble/stack/llm), and the       *)
(* application threads blocked in pairing() (whad/ble/profile/device.py,   *)
(* whad/ble/connector/peripheral.py).                                      *)
(*                                                                         *)
(* A handler runs in the message thread of its device, which handles one   *)
(* PDU at a time: it is one step.  The application thread shares the state *)
(* of the security manager with it and holds no lock.  The link is         *)
(* reliable and keeps the order of PDUs.                                   *)
(*                                                                         *)
(* Cryptography is symbolic: a random value, a key pair or a key is named  *)
(* by its owner, the pairing and the round it was generated in, and what   *)
(* is computed from values is the tuple of them.                           *)
(***************************************************************************)
EXTENDS Naturals, Sequences, FiniteSets

CONSTANTS
  Scenarios,  \* bound: parameters of the two sides, and how often each application calls pairing()
  Passkeys,   \* bound: what a user may type, or be shown
  LastRefusal, \* bound: the last pairing in which a hardware may refuse a key
  Rounds      \* bits of a passkey exchanged in LE Secure Connections (20 in the code)

Peers == {"central", "peripheral"}
Other(p) == CHOOSE q \in Peers : q # p
Caps  == {"DisplayOnly", "DisplayYesNo", "KeyboardOnly", "NoInputNoOutput", "KeyboardDisplay"}
Kinds == {"enc", "id", "sign"}
Parameters == [lesc : BOOLEAN, mitm : BOOLEAN, bonding : BOOLEAN, accept : BOOLEAN,
               iocap : Caps, keys : SUBSET Kinds]

ASSUME PairingAssumption ==
  /\ Scenarios \subseteq [par : [Peers -> Parameters], limit : [Peers -> Nat]]
  /\ Passkeys \subseteq Nat /\ Passkeys # {}
  /\ Rounds \in Nat \ {0}
  /\ LastRefusal \in Nat

None == <<>>

VARIABLES
  scenario,  \* the parameters in use
  sm,        \* SecurityManagerState of each side
  key,       \* encryption_key of the connection, on each side
  session,   \* the key each side has given its hardware
  hardware,  \* the key each side's hardware encrypts with
  net,       \* PDUs on their way to each side
  app,       \* where each application thread is
  calls,     \* calls of pairing() so far
  bonds,     \* entries of each side's security database
  requests,  \* history: pairing requests sent, whose number names a pairing
  consent,   \* history: what each user typed or accepted, in which pairing
  refused    \* history: a hardware has refused a key

vars == <<scenario, sm, key, session, hardware, net, app, calls, bonds, requests, consent, refused>>

par == scenario.par

\* The state of the security manager of one side: `initiator` is
\* enc_initiator; ipar and rpar the parameters of the two SM_Peer objects;
\* `got` the keys the peer has distributed.
NoKeys == [ltk |-> None, ediv |-> FALSE, irk |-> None, address |-> FALSE, csrk |-> None]
NoParameters == [lesc |-> FALSE, mitm |-> FALSE, bonding |-> FALSE, accept |-> FALSE,
                 iocap |-> "none", keys |-> {}]
NoMethod == [lesc |-> FALSE, kind |-> "none"]
Fresh == [state |-> "idle", initiator |-> FALSE, failed |-> FALSE, id |-> 0,
          ipar |-> NoParameters, rpar |-> NoParameters, method |-> NoMethod,
          tk |-> 0, irand |-> None, rrand |-> None, iconf |-> None, rconf |-> None,
          own |-> None, peer |-> None, passkey |-> 0, round |-> 1,
          ltk |-> None, irk |-> None, csrk |-> None, got |-> NoKeys]

\* Mutant: the keys the peer distributed are kept too.
ResetKeepsKeys(s) == [Fresh EXCEPT !.passkey = s.passkey, !.round = s.round, !.got = s.got]

\* reset_state: the passkey and its counter are kept.
Reset(s)  == [Fresh EXCEPT !.passkey = s.passkey, !.round = s.round]
Failed(s) == [Reset(s) EXCEPT !.failed = TRUE]

Resting == {"idle", "done"}

TypeOK ==
  /\ scenario \in Scenarios
  /\ \A p \in Peers :
       /\ sm[p].state \in Resting \cup
            {"pairing_rsp", "pairing_req", "legacy_confirm_sent", "legacy_random_sent",
             "legacy_random_recvd", "pubkey_sent", "pubkey_recvd", "confirm_sent",
             "random_sent", "dhkey_sent", "dhkey_recvd", "pubkey_recvd_stage",
             "confirm_sent_stage", "random_sent_stage", "distribute"}
       /\ sm[p].id \in 0..requests
       /\ sm[p].round \in 1..Rounds
       /\ app[p] \in {"idle", "checked", "waiting", "polled"}
       /\ calls[p] \in 0..scenario.limit[p]
       /\ \A e \in bonds[p] : e.id \in 1..requests

-----------------------------------------------------------------------------
(* Selection of the method, and values exchanged                           *)

YesNo    == {"DisplayYesNo", "KeyboardDisplay"}
Keyboard == {"KeyboardOnly", "KeyboardDisplay"}

\* IOCAP_KEY_GENERATION_MAPPING
IoMethod(i, r, lesc) ==
  IF "NoInputNoOutput" \in {i, r} THEN "justworks"
  ELSE IF lesc /\ {i, r} \subseteq YesNo THEN "numcomp"
  ELSE IF {i, r} \cap Keyboard # {} THEN "passkey"
  ELSE "justworks"

\* key_generation_method_selection, without out-of-band data
Method(i, r) ==
  LET lesc == i.lesc /\ r.lesc IN
  [lesc |-> lesc, kind |-> IF ~i.mitm /\ ~r.mitm THEN "justworks"
                           ELSE IoMethod(i.iocap, r.iocap, lesc)]

\* is_pairing_authenticated
Authenticated(m) == m.kind \in {"passkey", "numcomp"}

Rand(p, s)    == <<p, s.id, s.round>>
KeyPair(p, s) == <<p, s.id>>
Bit(k, i)     == (k \div 2^(i - 1)) % 2

\* Mutant: each side takes its own random value first.
ShortTermKeyOwnFirst(s) ==
  IF s.initiator THEN <<"s1", s.tk, s.irand, s.rrand>> ELSE <<"s1", s.tk, s.rrand, s.irand>>

\* c1, s1; f4 for the first round and for those of a passkey; f5; f6
LegacyConfirm(tk, rand) == <<"c1", tk, rand>>
ShortTermKey(s)         == <<"s1", s.tk, s.rrand, s.irand>>
Confirm(u, v, rand, r)  == <<"f4", u, v, rand, r>>
PasskeyBit(s)           == 128 + Bit(s.passkey, s.round)
LongTermKey(s)          == <<"f5", {s.own, s.peer}, s.irand, s.rrand>>
CheckValue(s, first)    == <<"f6", s.ltk, first, IF s.method.kind = "passkey" THEN s.passkey ELSE 0>>

\* The DHKey is computed: the LTK counts as distributed by both sides.
WithLongTermKey(s) ==
  [s EXCEPT !.ltk = LongTermKey(s), !.got.ltk = LongTermKey(s), !.got.ediv = TRUE]

-----------------------------------------------------------------------------
(* Messages                                                                *)

Pdu(t, v) == [t |-> t, v |-> v]
Notice(t) == Pdu(t, None)

Received(p, t) == net[p] # <<>> /\ Head(net[p]).t = t
Value(p)       == Head(net[p]).v

\* A handler of side p leaves state s and sends the PDUs `out`.
Handle(p, s, out) ==
  /\ sm' = [sm EXCEPT ![p] = s]
  /\ net' = [net EXCEPT ![p] = Tail(@), ![Other(p)] = @ \o out]

Refuse(p) == Handle(p, Failed(sm[p]), <<Notice("failed")>>)

In(p, state, t) == Received(p, t) /\ sm[p].state = state

cipher  == <<hardware, refused>>
link    == <<key, session, cipher>>
threads == <<app, calls>>
ghosts  == <<requests, consent>>
Only_sm_net == UNCHANGED <<scenario, link, threads, bonds, ghosts>>

-----------------------------------------------------------------------------
(* Feature exchange                                                        *)

\* initiate_pairing
Initiate(p) ==
  [Reset(sm[p]) EXCEPT !.initiator = TRUE, !.ipar = par[p], !.id = requests + 1,
                       !.state = "pairing_rsp"]
PairingRequest == Pdu("pairing_request", [id |-> requests + 1, par |-> par["central"]])

\* The user's part in a legacy passkey pairing: get_pin_code on each side.
Typed(p, m, id, pin) ==
  consent' = IF m.kind = "passkey" THEN consent \cup {<<p, id, pin>>} ELSE consent

OnSecurityRequest(p) ==
  /\ Received(p, "security_request") /\ sm[p].state \in Resting /\ par[p].accept
  /\ Handle(p, Initiate(p), <<PairingRequest>>)
  /\ requests' = requests + 1
  /\ UNCHANGED <<scenario, link, threads, bonds, consent>>

\* A request is declined when the parameters say so, and the pairing fails
\* when a PDU comes in a state that does not expect it.
Declined(p) ==
  /\ Received(p, "security_request") \/ Received(p, "pairing_request")
  /\ sm[p].state \in Resting /\ ~par[p].accept
  /\ Refuse(p) /\ Only_sm_net

OnPairingRequest(p) ==
  /\ Received(p, "pairing_request") /\ sm[p].state \in Resting /\ par[p].accept
  /\ \E pin \in Passkeys :
       LET m == Method(Value(p).par, par[p])
           s == [Reset(sm[p]) EXCEPT !.state = "pairing_req", !.id = Value(p).id,
                   !.ipar = Value(p).par, !.rpar = par[p], !.method = m] IN
       /\ Handle(p, CASE m.lesc -> [s EXCEPT !.own = KeyPair(p, s)]
                      [] ~m.lesc /\ m.kind = "passkey" -> [s EXCEPT !.tk = pin]
                      [] OTHER -> s,
                 <<Pdu("pairing_response", par[p])>>)
       /\ IF m.lesc THEN UNCHANGED consent ELSE Typed(p, m, s.id, pin)
  /\ UNCHANGED <<scenario, link, threads, bonds, requests>>

OnPairingResponse(p) ==
  /\ In(p, "pairing_rsp", "pairing_response")
  /\ \E pin \in Passkeys :
       LET m == Method(sm[p].ipar, Value(p))
           s == [sm[p] EXCEPT !.rpar = Value(p), !.method = m]
           t == [s EXCEPT !.tk = IF m.kind = "passkey" THEN pin ELSE 0, !.irand = Rand(p, s)] IN
       \/ /\ m.lesc
          /\ Handle(p, [s EXCEPT !.own = KeyPair(p, s), !.state = "pubkey_sent"],
                    <<Pdu("public_key", KeyPair(p, s))>>)
          /\ UNCHANGED consent
       \/ /\ ~m.lesc
          /\ Handle(p, [t EXCEPT !.iconf = LegacyConfirm(t.tk, t.irand),
                                 !.state = "legacy_confirm_sent"],
                    <<Pdu("confirm", LegacyConfirm(t.tk, t.irand))>>)
          /\ Typed(p, m, s.id, pin)
  /\ UNCHANGED <<scenario, link, threads, bonds, requests>>

-----------------------------------------------------------------------------
(* Legacy pairing                                                          *)

OnLegacyConfirm(p) ==
  LET s == [sm[p] EXCEPT !.rrand = Rand(p, sm[p])]
      c == LegacyConfirm(s.tk, s.rrand) IN
  /\ \/ /\ In(p, "pairing_req", "confirm")
        /\ Handle(p, [s EXCEPT !.iconf = Value(p), !.rconf = c, !.state = "legacy_confirm_sent"],
                  <<Pdu("confirm", c)>>)
     \/ /\ In(p, "legacy_confirm_sent", "confirm")
        /\ Handle(p, [sm[p] EXCEPT !.rconf = Value(p), !.state = "legacy_random_sent"],
                  <<Pdu("random", sm[p].irand)>>)
  /\ Only_sm_net

\* The responder checks the initiator's commitment and answers; then it
\* gives the key to the link layer.  The initiator's own check could fail
\* only if the responder's answer were corrupted.
OnLegacyRandomOfInitiator(p) ==
  LET s == [sm[p] EXCEPT !.irand = Value(p), !.state = "legacy_random_sent"] IN
  /\ In(p, "legacy_confirm_sent", "random")
  /\ \/ /\ LegacyConfirm(s.tk, s.irand) = s.iconf
        /\ Handle(p, s, <<Pdu("random", s.rrand)>>)
        /\ key' = [key EXCEPT ![p] = ShortTermKey(s)]
     \/ /\ LegacyConfirm(s.tk, s.irand) # s.iconf
        /\ Refuse(p) /\ UNCHANGED key
  /\ UNCHANGED <<scenario, session, cipher, threads, bonds, ghosts>>

OnLegacyRandomOfResponder(p) ==
  LET s == [sm[p] EXCEPT !.rrand = Value(p), !.state = "legacy_random_recvd"] IN
  /\ In(p, "legacy_random_sent", "random")
  /\ IF LegacyConfirm(s.tk, s.rrand) = s.rconf
     THEN /\ Handle(p, s, <<Notice("enc_req")>>)
          /\ key' = [key EXCEPT ![p] = ShortTermKey(s)]
     ELSE Refuse(p) /\ UNCHANGED key
  /\ UNCHANGED <<scenario, session, cipher, threads, bonds, ghosts>>

-----------------------------------------------------------------------------
(* LE Secure Connections                                                   *)

OnPublicKeyOfInitiator(p) ==
  LET s == [sm[p] EXCEPT !.peer = Value(p), !.rrand = Rand(p, sm[p])]
      c == Confirm(s.own, s.peer, s.rrand, 0) IN
  /\ In(p, "pairing_req", "public_key")
  /\ \/ /\ s.method.kind # "passkey"
        /\ Handle(p, [s EXCEPT !.rconf = c, !.state = "confirm_sent"],
                  <<Pdu("public_key", s.own), Pdu("confirm", c)>>)
     \/ /\ s.method.kind = "passkey"
        /\ Handle(p, [s EXCEPT !.round = 1, !.state = "pubkey_recvd_stage"],
                  <<Pdu("public_key", s.own)>>)
  /\ Only_sm_net

\* The commitment of the initiator to its bit of the current round.
BitOfInitiator(p, s) ==
  LET t == [s EXCEPT !.irand = Rand(p, s), !.state = "confirm_sent_stage"]
      c == Confirm(t.own, t.peer, t.irand, PasskeyBit(t)) IN
  Handle(p, [t EXCEPT !.iconf = c], <<Pdu("confirm", c)>>)

OnPublicKeyOfResponder(p) ==
  LET s == [sm[p] EXCEPT !.peer = Value(p)] IN
  /\ In(p, "pubkey_sent", "public_key")
  /\ \/ /\ s.method.kind # "passkey"
        /\ Handle(p, [s EXCEPT !.state = "pubkey_recvd"], <<>>)
        /\ UNCHANGED consent
     \/ /\ s.method.kind = "passkey"
        /\ \E k \in Passkeys :
             /\ BitOfInitiator(p, [s EXCEPT !.round = 1, !.passkey = k])
             /\ Typed(p, s.method, s.id, k)
  /\ UNCHANGED <<scenario, link, threads, bonds, requests>>

OnConfirmOfResponder(p) ==
  LET s == [sm[p] EXCEPT !.rconf = Value(p)] IN
  /\ \/ /\ In(p, "pubkey_recvd", "confirm")
        /\ Handle(p, [s EXCEPT !.irand = Rand(p, s), !.state = "random_sent"],
                  <<Pdu("random", Rand(p, s))>>)
     \/ /\ In(p, "confirm_sent_stage", "confirm")
        /\ Handle(p, [s EXCEPT !.state = "random_sent_stage"], <<Pdu("random", s.irand)>>)
  /\ Only_sm_net

\* The responder asks for the passkey in the first round.
OnConfirmOfInitiator(p) ==
  /\ In(p, "pubkey_recvd_stage", "confirm") \/ In(p, "random_sent_stage", "confirm")
  /\ \E k \in IF sm[p].round = 1 THEN Passkeys ELSE {sm[p].passkey} :
       LET s == [sm[p] EXCEPT !.passkey = k, !.iconf = Value(p), !.rrand = Rand(p, sm[p]),
                              !.state = "confirm_sent_stage"]
           c == Confirm(s.own, s.peer, s.rrand, PasskeyBit(s)) IN
       /\ Handle(p, [s EXCEPT !.rconf = c], <<Pdu("confirm", c)>>)
       /\ Typed(p, s.method, s.id, k)
  /\ UNCHANGED <<scenario, link, threads, bonds, requests>>

\* check_lesc_numeric_comparison: the user compares the two numbers.
Accepts(p, s, yes) ==
  consent' = IF s.method.kind = "numcomp" /\ yes THEN consent \cup {<<p, s.id, 0>>} ELSE consent

\* The initiator checks the commitment of the responder, then its user
\* compares; the DHKey check is sent with the LTK computed.
OnRandomOfResponder(p) ==
  LET s == [sm[p] EXCEPT !.rrand = Value(p)]
      t == [WithLongTermKey(s) EXCEPT !.state = "dhkey_sent"] IN
  /\ In(p, "random_sent", "random")
  /\ \E yes \in BOOLEAN :
       /\ s.method.kind = "justworks" => yes
       /\ \/ /\ yes /\ Confirm(s.peer, s.own, s.rrand, 0) = s.rconf
             /\ Handle(p, t, <<Pdu("dhkey_check", CheckValue(t, "initiator"))>>)
          \/ /\ ~yes \/ Confirm(s.peer, s.own, s.rrand, 0) # s.rconf
             /\ Refuse(p)
       /\ Accepts(p, s, yes /\ Confirm(s.peer, s.own, s.rrand, 0) = s.rconf)
  /\ UNCHANGED <<scenario, link, threads, bonds, requests>>

\* Mutant: the answer of the responder's user is not looked at.
OnRandomOfInitiatorUnasked(p) ==
  LET s == [sm[p] EXCEPT !.irand = Value(p)] IN
  /\ In(p, "confirm_sent", "random")
  /\ \E yes \in BOOLEAN : Accepts(p, s, yes)
  /\ Handle(p, [s EXCEPT !.state = "random_sent"], <<Pdu("random", s.rrand)>>)
  /\ UNCHANGED <<scenario, link, threads, bonds, requests>>

OnRandomOfInitiator(p) ==
  LET s == [sm[p] EXCEPT !.irand = Value(p)]
      random == Pdu("random", s.rrand) IN
  /\ In(p, "confirm_sent", "random")
  /\ \E yes \in BOOLEAN :
       /\ s.method.kind = "justworks" => yes
       /\ \/ yes  /\ Handle(p, [s EXCEPT !.state = "random_sent"], <<random>>)
          \/ ~yes /\ Handle(p, Failed(s), <<random, Notice("failed")>>)
       /\ Accepts(p, s, yes)
  /\ UNCHANGED <<scenario, link, threads, bonds, requests>>

\* Mutant: the rounds go on past the last bit.
OnRandomOfRoundEndless(p) ==
  LET s == [sm[p] EXCEPT !.rrand = Value(p)] IN
  /\ In(p, "random_sent_stage", "random")
  /\ IF Confirm(s.peer, s.own, s.rrand, PasskeyBit(s)) = s.rconf
     THEN BitOfInitiator(p, [s EXCEPT !.round = @ + 1])
     ELSE Refuse(p)
  /\ Only_sm_net

\* One bit of the passkey: each side checks the other's commitment; the
\* initiator goes on with the next round, or with the DHKey check.
OnRandomOfRound(p) ==
  LET s == [sm[p] EXCEPT !.rrand = Value(p)]
      t == [WithLongTermKey(s) EXCEPT !.state = "dhkey_sent"]
      valid == Confirm(s.peer, s.own, s.rrand, PasskeyBit(s)) = s.rconf IN
  /\ In(p, "random_sent_stage", "random")
  /\ \/ /\ valid /\ s.round = Rounds
        /\ Handle(p, t, <<Pdu("dhkey_check", CheckValue(t, "initiator"))>>)
     \/ /\ valid /\ s.round # Rounds
        /\ BitOfInitiator(p, [s EXCEPT !.round = @ + 1])
     \/ ~valid /\ Refuse(p)
  /\ Only_sm_net

OnRandomOfRoundAtResponder(p) ==
  LET s == [sm[p] EXCEPT !.irand = Value(p)]
      valid == Confirm(s.peer, s.own, s.irand, PasskeyBit(s)) = s.iconf IN
  /\ In(p, "confirm_sent_stage", "random")
  /\ \/ /\ valid
        /\ Handle(p, IF s.round = Rounds THEN [s EXCEPT !.state = "random_sent"]
                     ELSE [s EXCEPT !.state = "random_sent_stage", !.round = @ + 1],
                  <<Pdu("random", s.rrand)>>)
     \/ ~valid /\ Refuse(p)
  /\ Only_sm_net

\* Side p checks the value received and leaves state s, its key given to
\* the link layer.  Only a corrupted PDU would fail the check.
Checked(p, expected, s, out) ==
  IF Value(p) = expected
  THEN Handle(p, s, out) /\ key' = [key EXCEPT ![p] = s.ltk]
  ELSE Refuse(p) /\ UNCHANGED key

\* The responder answers a valid check; the initiator starts encryption.
OnDhkeyCheck(p) ==
  LET s == WithLongTermKey(sm[p]) IN
  /\ \/ /\ In(p, "random_sent", "dhkey_check")
        /\ Checked(p, CheckValue(s, "initiator"), [s EXCEPT !.state = "dhkey_sent"],
                   <<Pdu("dhkey_check", CheckValue(s, "responder"))>>)
     \/ /\ In(p, "dhkey_sent", "dhkey_check")
        /\ Checked(p, CheckValue(sm[p], "responder"),
                   [sm[p] EXCEPT !.state = "dhkey_recvd"], <<Notice("enc_req")>>)
  /\ UNCHANGED <<scenario, session, cipher, threads, bonds, ghosts>>

-----------------------------------------------------------------------------
(* Key distribution                                                        *)

OwnKeys(s)  == IF s.initiator THEN s.ipar.keys ELSE s.rpar.keys
PeerOf(s)   == IF s.initiator THEN s.rpar ELSE s.ipar
PeerKeys(s) == PeerOf(s).keys

\* is_key_distribution_complete, of the other side
Complete(s) ==
  /\ "enc"  \in PeerKeys(s) => s.got.ltk # None /\ s.got.ediv
  /\ "id"   \in PeerKeys(s) => s.got.irk # None /\ s.got.address
  /\ "sign" \in PeerKeys(s) => s.got.csrk # None

\* perform_key_distribution: the keys a side generates, and the PDUs that
\* carry them.  An LTK computed by LE Secure Connections is not sent.
WithOwnKeys(p, s) ==
  [s EXCEPT !.ltk  = IF @ = None THEN <<"ltk", p, s.id>> ELSE @,
            !.irk  = IF "id" \in OwnKeys(s) THEN <<"irk", p, s.id>> ELSE @,
            !.csrk = IF "sign" \in OwnKeys(s) THEN <<"csrk", p, s.id>> ELSE @]

\* Mutant: the signature key is never sent.
KeyPdusUnsigned(p, s) ==
  LET t == WithOwnKeys(p, s) IN
  (IF "enc" \in OwnKeys(s) /\ s.ltk = None
   THEN <<Pdu("encryption_information", t.ltk), Notice("master_identification")>> ELSE <<>>)
  \o (IF "id" \in OwnKeys(s)
      THEN <<Pdu("identity_information", t.irk), Notice("identity_address")>> ELSE <<>>)

KeyPdus(p, s) ==
  LET t == WithOwnKeys(p, s) IN
  (IF "enc" \in OwnKeys(s) /\ s.ltk = None
   THEN <<Pdu("encryption_information", t.ltk), Notice("master_identification")>> ELSE <<>>)
  \o (IF "id" \in OwnKeys(s)
      THEN <<Pdu("identity_information", t.irk), Notice("identity_address")>> ELSE <<>>)
  \o (IF "sign" \in OwnKeys(s) THEN <<Pdu("signing_information", t.csrk)>> ELSE <<>>)

\* pairing_done: a side stores its own keys and those of its peer.
Bond(s) ==
  [id |-> s.id, auth |-> Authenticated(s.method),
   own  |-> [ltk |-> s.ltk, irk |-> s.irk, csrk |-> s.csrk],
   peer |-> [ltk |-> s.got.ltk, irk |-> s.got.irk, csrk |-> s.got.csrk]]
Done(p, s, out) ==
  /\ Handle(p, [s EXCEPT !.state = "done"], out)
  /\ bonds' = IF par[p].bonding THEN [bonds EXCEPT ![p] = @ \cup {Bond(s)}] ELSE bonds

\* Side p distributes its keys, from state s; the initiator is then done.
\* `first` is what it sends before.
Distribute(p, s, first) ==
  LET t == WithOwnKeys(p, s)
      out == first \o KeyPdus(p, s) IN
  IF s.initiator
  THEN Done(p, t, out)
  ELSE /\ Handle(p, IF "sign" \in OwnKeys(s) THEN [t EXCEPT !.state = "distribute"] ELSE t, out)
       /\ UNCHANGED bonds

KeyTypes == {"encryption_information", "master_identification", "identity_information",
             "identity_address", "signing_information"}

\* on_encryption_information and the four other handlers of a key.  While
\* the peer's SM_Peer does not exist they raise, which ends the thread.
OnKey(p) ==
  \E t \in KeyTypes :
    LET s == [sm[p] EXCEPT !.got =
                CASE t = "encryption_information" -> [@ EXCEPT !.ltk = Value(p)]
                  [] t = "master_identification"  -> [@ EXCEPT !.ediv = TRUE]
                  [] t = "identity_information"   -> [@ EXCEPT !.irk = Value(p)]
                  [] t = "identity_address"       -> [@ EXCEPT !.address = TRUE]
                  [] t = "signing_information"    -> [@ EXCEPT !.csrk = Value(p)]] IN
    /\ Received(p, t) /\ PeerOf(s) # NoParameters
    /\ \/ Complete(s) /\ s.initiator  /\ Distribute(p, s, <<>>)
       \/ Complete(s) /\ ~s.initiator /\ Done(p, s, <<>>)
       \/ ~Complete(s) /\ Handle(p, s, <<>>) /\ UNCHANGED bonds
    /\ UNCHANGED <<scenario, link, threads, ghosts>>

-----------------------------------------------------------------------------
(* Encryption of the link: LL_ENC_REQ and LL_ENC_RSP, then LL_START_ENC_REQ *)
(* and two LL_START_ENC_RSP                                                *)

\* set_encryption: the device may answer with an error, and nobody learns of
\* it, since the stack drops the result.
SetEncryption(p) ==
  /\ session' = [session EXCEPT ![p] = key[p]]
  /\ \/ hardware' = [hardware EXCEPT ![p] = key[p]] /\ UNCHANGED refused
     \/ requests <= LastRefusal /\ refused' = TRUE /\ UNCHANGED hardware

\* on_enc_req, on_enc_rsp: set_encryption with the key registered.  A side
\* that has none rejects the request, which leaves the other waiting; a
\* reachable request without a key would show as a PDU nobody handles.
OnEncReq(p) ==
  /\ Received(p, "enc_req") /\ key[p] # None
  /\ Handle(p, sm[p], <<Notice("enc_rsp"), Notice("start_enc_req")>>)
  /\ SetEncryption(p)
  /\ UNCHANGED <<scenario, key, threads, bonds, ghosts>>

OnEncRsp(p) ==
  /\ Received(p, "enc_rsp") /\ key[p] # None
  /\ Handle(p, sm[p], <<>>)
  /\ SetEncryption(p)
  /\ UNCHANGED <<scenario, key, threads, bonds, ghosts>>

OnStartEncReq(p) ==
  /\ Received(p, "start_enc_req")
  /\ Handle(p, sm[p], <<Notice("start_enc_rsp")>>)
  /\ Only_sm_net

\* on_start_enc_rsp, with on_channel_encrypted: the side that is not the
\* initiator answers, then distributes its keys; the initiator waits for
\* the peer's, unless legacy pairing leaves none to wait for.
MayDistribute(s) ==
  \/ s.state \in {"legacy_random_sent", "dhkey_sent"}
  \/ s.state = "legacy_random_recvd" /\ Complete(s)

OnStartEncRsp(p) ==
  LET answer == IF sm[p].initiator THEN <<>> ELSE <<Notice("start_enc_rsp")>> IN
  /\ Received(p, "start_enc_rsp")
  /\ \/ MayDistribute(sm[p]) /\ Distribute(p, sm[p], answer)
     \/ ~MayDistribute(sm[p]) /\ Handle(p, sm[p], answer) /\ UNCHANGED bonds
  /\ UNCHANGED <<scenario, link, threads, ghosts>>

-----------------------------------------------------------------------------
(* Failures                                                                *)

\* Mutant: the state is reset, and the failure not kept.
OnFailedForgotten(p) ==
  /\ Received(p, "failed")
  /\ Handle(p, Reset(sm[p]), <<>>)
  /\ Only_sm_net

OnFailed(p) ==
  /\ Received(p, "failed")
  /\ Handle(p, Failed(sm[p]), <<>>)
  /\ Only_sm_net

Expected ==
  [security_request |-> Resting, pairing_request |-> Resting, pairing_response |-> {"pairing_rsp"},
   confirm |-> {"pairing_req", "legacy_confirm_sent", "pubkey_recvd", "pubkey_recvd_stage",
                "random_sent_stage", "confirm_sent_stage"},
   random  |-> {"legacy_confirm_sent", "legacy_random_sent", "confirm_sent", "random_sent",
                "confirm_sent_stage", "random_sent_stage"},
   dhkey_check |-> {"random_sent", "dhkey_sent"}]

Unexpected(p) ==
  /\ \E t \in DOMAIN Expected : Received(p, t) /\ sm[p].state \notin Expected[t]
  /\ Refuse(p)
  /\ Only_sm_net

\* on_public_key has no such branch.
StrayPublicKey(p) ==
  /\ Received(p, "public_key") /\ sm[p].state \notin {"pairing_req", "pubkey_sent"}
  /\ Handle(p, sm[p], <<>>)
  /\ Only_sm_net

-----------------------------------------------------------------------------
(* Applications: pairing() starts a procedure and polls its outcome        *)

\* initiate_pairing of the central, request_pairing of the peripheral: the
\* state is tested, then the procedure started.
Call(p) ==
  /\ app[p] = "idle" /\ calls[p] < scenario.limit[p]
  /\ calls' = [calls EXCEPT ![p] = @ + 1]
  /\ app' = IF sm[p].state \in Resting THEN [app EXCEPT ![p] = "checked"] ELSE app
  /\ UNCHANGED <<scenario, sm, link, net, bonds, ghosts>>

Start(p) ==
  /\ app[p] = "checked"
  /\ app' = [app EXCEPT ![p] = "waiting"]
  /\ \/ /\ p = "central"
        /\ sm' = [sm EXCEPT ![p] = Initiate(p)]
        /\ net' = [net EXCEPT ![Other(p)] = Append(@, PairingRequest)]
        /\ requests' = requests + 1
     \/ /\ p = "peripheral"
        /\ sm' = [sm EXCEPT ![p] = Reset(sm[p])]
        /\ net' = [net EXCEPT ![Other(p)] = Append(@, Notice("security_request"))]
        /\ UNCHANGED requests
  /\ UNCHANGED <<scenario, link, calls, bonds, consent>>

PollDone(p) ==
  /\ app[p] = "waiting" /\ sm[p].state = "done"
  /\ app' = [app EXCEPT ![p] = "polled"]
  /\ UNCHANGED <<scenario, sm, link, net, calls, bonds, ghosts>>

PollFailed(p) ==
  /\ app[p] = "waiting" /\ sm[p].state # "done" /\ sm[p].failed
  /\ app' = [app EXCEPT ![p] = "idle"]
  /\ UNCHANGED <<scenario, sm, link, net, calls, bonds, ghosts>>

ResetDone(p) ==
  /\ app[p] = "polled"
  /\ app' = [app EXCEPT ![p] = "idle"]
  /\ sm' = [sm EXCEPT ![p] = Reset(@)]
  /\ UNCHANGED <<scenario, link, net, calls, bonds, ghosts>>

-----------------------------------------------------------------------------
Init ==
  /\ scenario \in Scenarios
  /\ sm      = [p \in Peers |-> Fresh]
  /\ key     = [p \in Peers |-> None]
  /\ session = [p \in Peers |-> None]
  /\ hardware = [p \in Peers |-> None]
  /\ refused = FALSE
  /\ net     = [p \in Peers |-> <<>>]
  /\ app     = [p \in Peers |-> "idle"]
  /\ calls   = [p \in Peers |-> 0]
  /\ bonds   = [p \in Peers |-> {}]
  /\ requests = 0
  /\ consent  = {}

Message(p) ==
  \/ OnSecurityRequest(p) \/ OnPairingRequest(p) \/ OnPairingResponse(p) \/ Declined(p)
  \/ OnLegacyConfirm(p) \/ OnLegacyRandomOfInitiator(p) \/ OnLegacyRandomOfResponder(p)
  \/ OnPublicKeyOfInitiator(p) \/ OnPublicKeyOfResponder(p)
  \/ OnConfirmOfInitiator(p) \/ OnConfirmOfResponder(p)
  \/ OnRandomOfInitiator(p) \/ OnRandomOfResponder(p)
  \/ OnRandomOfRound(p) \/ OnRandomOfRoundAtResponder(p) \/ OnDhkeyCheck(p)
  \/ OnKey(p) \/ OnEncReq(p) \/ OnEncRsp(p) \/ OnStartEncReq(p) \/ OnStartEncRsp(p)
  \/ OnFailed(p) \/ Unexpected(p) \/ StrayPublicKey(p)

Application(p) == Start(p) \/ PollDone(p) \/ PollFailed(p) \/ ResetDone(p)

Next == \E p \in Peers : Message(p) \/ Application(p) \/ Call(p)

\* Each message thread handles what arrives, and an application that called
\* pairing() polls; an application need not call it.
Fairness == \A p \in Peers : WF_vars(Message(p)) /\ WF_vars(Application(p))

Spec == Init /\ [][Next]_vars /\ Fairness

-----------------------------------------------------------------------------
(* Properties                                                              *)

Alone(p) == scenario.limit[Other(p)] = 0

\* At most one application pairs, or both sides use LE Secure Connections.
\* No PDU names the pairing it is of: when both applications pair again and
\* again, a side takes PDUs of one legacy pairing for another's.
NoLegacyOverlap ==
  (\E p \in Peers : Alone(p)) \/ \A p \in Peers : par[p].lesc

\* Keys are distributed over a link both sides encrypt with the same key:
\* while a PDU that carries one is on its way, and from the first
\* LL_START_ENC_RSP on, both use it.  This holds until a hardware refuses its
\* key: then the code goes on, and keys are sent in clear.
KeysStayEncrypted ==
  NoLegacyOverlap /\ ~refused =>
    \A p \in Peers : \A i \in 1..Len(net[p]) :
      net[p][i].t \in KeyTypes \cup {"start_enc_rsp"} =>
        hardware["central"] # None /\ hardware["central"] = hardware["peripheral"]

\* The two sides agree on a pairing both have stored: what one keeps as a
\* key of its peer is the peer's own, and they give it the same
\* authentication.  Of two attempts, no key of one is stored for the other.
BondsAgree ==
  NoLegacyOverlap =>
    \A p \in Peers : \A e \in bonds[p], f \in bonds[Other(p)] :
      e.id = f.id =>
        /\ e.auth = f.auth
        /\ \A k \in {"ltk", "irk", "csrk"} : e.peer[k] # None => e.peer[k] = f.own[k]

\* A bond is marked authenticated only when both users have taken part in
\* that very pairing: they typed the same passkey, or accepted the
\* comparison.
AuthenticatedByUsers ==
  NoLegacyOverlap =>
    \A p \in Peers : \A e \in bonds[p] :
      e.auth => \E k \in Passkeys \cup {0} : {<<q, e.id, k>> : q \in Peers} \subseteq consent

\* Both sides have a key to send once the link is encrypted.
BothDistribute ==
  LET lesc == par["central"].lesc /\ par["peripheral"].lesc IN
  \A p \in Peers : par[p].keys \ (IF lesc THEN {"enc"} ELSE {}) # {}

MaxCalls == CHOOSE n \in {s.limit[p] : s \in Scenarios, p \in Peers} :
              \A s \in Scenarios, p \in Peers : s.limit[p] <= n

\* When both users refuse a comparison the two failures cross, and the later
\* one ends a second call whose pairing goes on: a third call breaks into it.
NoFailureLeft ==
  Method(par["central"], par["peripheral"]).kind = "numcomp" =>
    \A p \in Peers : scenario.limit[p] <= 2

\* pairing() returns, whatever the users type or refuse and whether or not
\* the other side declines: as long as one application pairs, no failure of
\* an earlier pairing is left, both sides have a key to distribute, and no
\* hardware refuses the key of the link (two sides that encrypt differently
\* lose the link).
PairingReturns ==
  \A p \in Peers :
    Alone(p) /\ NoFailureLeft /\ BothDistribute /\ app[p] = "waiting" ~> app[p] = "idle" \/ refused

\* A bond is not one-sided: when the initiator has stored a pairing, the
\* responder stores it too.
BondsBecomeMutual ==
  \A n \in 1..MaxCalls :
    (/\ \E p \in Peers : Alone(p)
     /\ NoFailureLeft /\ BothDistribute /\ par["peripheral"].bonding
     /\ \E e \in bonds["central"] : e.id = n)
      ~> refused \/ \E f \in bonds["peripheral"] : f.id = n
=============================================================================
