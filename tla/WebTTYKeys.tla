----------------------------- MODULE WebTTYKeys -----------------------------
(* End-to-end keys of a WebTTY session (webtty/src/e2e-crypto.ts): the client wraps a *)
(* payload key for each recipient, the server finds the envelope of its identity, and *)
(* both encrypt the payloads of a session with it.                                    *)
(*                                                                                    *)
(* Cryptography is symbolic: what HPKE, ECDH, HKDF and AES-GCM seal opens with the key *)
(* it was sealed for and the same info and additional data, and with nothing else.    *)
(* A configuration is chosen at the start; the operators say what the code makes of it.*)
EXTENDS Naturals, Sequences

CONSTANTS Keys,       \* key pairs
          KeySuite,   \* of each: "nominal" (X25519) or "fips" (P-256), which its length tells
          Digest,     \* of each: what webTTYE2EKeyID makes of it
          Grants,     \* the client's configurations to consider
          Others,     \* those of other sessions
          Identities, \* those of the server
          Lengths     \* of plaintexts


VARIABLE keys   \* [grant, identity]: the two configurations
keyVars == <<keys>>

Unset == "unset"
KeyRefused == [refused |-> TRUE]
Or(value, default) == IF value = Unset THEN default ELSE value

\* A recipient or an identity: its key, and a key id and a suite that may override those of the
\* key; a recipient's kind and id too (an identity has neither).
Holders == [key : Keys, keyId : STRING, suite : {Unset, "nominal", "fips"}, kind : STRING, id : STRING]

ASSUME KeysAssumption ==
  /\ KeySuite \in [Keys -> {"nominal", "fips"}] /\ Digest \in [Keys -> STRING]
  /\ Unset \notin {Digest[key] : key \in Keys} /\ \A k, l \in Keys : Digest[k] = Digest[l] => k = l
  /\ Lengths \subseteq Nat /\ Identities \subseteq Holders
  /\ \A grant \in Grants \union Others :
       /\ grant.recipients \in Seq(Holders)
       /\ {grant.suite, grant.payloadSuite} \subseteq {Unset, "nominal", "fips"}

KeysInit == \E grant \in Grants, identity \in Identities : keys = [grant |-> grant, identity |-> identity]
KeysNext == UNCHANGED keyVars
KeysSpec == KeysInit /\ [][KeysNext]_keyVars

\* The id that is stated, which may be the digest of the key, or of another; or else that digest.
IdOf(holder) == Or(holder.keyId, Digest[holder.key])
\* inferKeyEnvelopeSuite
HolderSuite(holder) == Or(holder.suite, KeySuite[holder.key])

-----------------------------------------------------------------------------
(* Sealing *)

\* hpkeInfo() and hpkeAAD(): both bind the suites, the payload key and the context; the second
\* binds the recipient too.
Info(g) == [suite |-> g.suite, payloadSuite |-> g.payloadSuite, payloadKeyId |-> g.payloadKeyId,
            context |-> g.context]
\* What is sealed, and what opening it yields: the secret, or nothing.
Sealed(secret, key, binding) == [secret |-> secret, key |-> key, binding |-> binding]
OpenSealed(box, key, binding) == IF box.key = key /\ box.binding = binding THEN {box.secret} ELSE {}

\* What the two halves of a key pair and those of an ephemeral one agree on: every sealing makes
\* an ephemeral pair of its own, and sends its public half as the encapsulated key.
SharedKey(encapsulated, key) == <<encapsulated, key>>

\* wrapPayloadKey() for a recipient, in a grant g, with an ephemeral key.
Wrapped(g, payloadKey, r, ephemeral) ==
  [to |-> IdOf(r), encapsulated |-> ephemeral,
   wrapped |-> Sealed(payloadKey, SharedKey(ephemeral, r.key), <<Info(g), IdOf(r)>>)]

\* createWebTTYE2EClientPayloadCrypto(): the common suite of the recipients, or the one given.
ClientSuite(c) == Or(c.suite, HolderSuite(c.recipients[1]))
SuiteAccepted(c) ==
  /\ c.recipients # <<>>
  /\ Or(c.payloadSuite, ClientSuite(c)) = ClientSuite(c)   \* validateSuites
  /\ \A i \in DOMAIN c.recipients :
       HolderSuite(c.recipients[i]) = ClientSuite(c) /\ KeySuite[c.recipients[i].key] = ClientSuite(c)

\* implicitKeyContextFromRecipients(), unless a context is given: a recipient without kind and id
\* is known by its key; one that has the one and not the other is an error.
HalfTyped(r) == (r.kind = Unset) # (r.id = Unset)
Described(r) ==
  IF r.kind = Unset /\ r.id = Unset THEN [keyId |-> IdOf(r), kind |-> "public_key", id |-> IdOf(r)]
  ELSE [keyId |-> IdOf(r), kind |-> r.kind, id |-> r.id]
ContextOf(c) ==
  IF c.context # Unset THEN <<"given", c.context>>
  ELSE <<"recipients", [i \in DOMAIN c.recipients |-> Described(c.recipients[i])]>>
ContextRefused(c) == c.context = Unset /\ \E i \in DOMAIN c.recipients : HalfTyped(c.recipients[i])

\* The session key grant, and the session of the client.
Granted(c) ==
  LET g == [suite |-> ClientSuite(c), payloadSuite |-> ClientSuite(c), payloadKeyId |-> c.payloadKeyId,
            context |-> ContextOf(c)]
  IN IF ~SuiteAccepted(c) \/ ContextRefused(c) THEN KeyRefused
     ELSE [refused |-> FALSE, grant |-> g, payloadKey |-> c.payloadKey,
           envelopes |-> [i \in DOMAIN c.recipients |-> Wrapped(g, c.payloadKey, c.recipients[i], i)]]

\* createWebTTYE2EServerPayloadCrypto(): the first envelope with the id of the identity.
First(places) == CHOOSE i \in places : \A j \in places : i <= j
EnvelopesFor(session, identity) == {i \in DOMAIN session.envelopes : session.envelopes[i].to = IdOf(identity)}
Accepted(session, identity) ==
  LET mine == EnvelopesFor(session, identity)
      envelope == session.envelopes[First(mine)]
      opened == OpenSealed(envelope.wrapped, SharedKey(envelope.encapsulated, identity.key), <<Info(session.grant), envelope.to>>)
  IN IF mine = {} \/ HolderSuite(identity) # session.grant.suite \/ opened = {} THEN KeyRefused
     ELSE [refused |-> FALSE, grant |-> session.grant, payloadKey |-> CHOOSE secret \in opened : TRUE]

\* A recorded grant (replay.ts) has envelopes without wrapped keys; that of the recipient who asks
\* comes beside it, and goes to the first envelope with the key id stated for the identity, or to
\* the only one.  The envelope keeps its own encapsulated key.
NoKey == Sealed("no secret", <<>>, <<>>)
Recorded(session) ==
  [session EXCEPT !.envelopes = [i \in DOMAIN @ |-> [@[i] EXCEPT !.wrapped = NoKey]]]
AttachWrappedKey(session, wrappedKey, identity) ==
  LET matches == IF Len(session.envelopes) = 1 THEN {1}
                 ELSE IF identity.keyId = Unset THEN {} ELSE EnvelopesFor(session, identity)
  IN IF matches = {} \/ session.envelopes[First(matches)].wrapped # NoKey THEN session
     ELSE [session EXCEPT !.envelopes[First(matches)].wrapped = wrappedKey]
\* createWebTTYE2EReplayPayloadCryptoFromKeyGrant
Replayed(session, wrappedKey, identity) ==
  Accepted(AttachWrappedKey(Recorded(session), wrappedKey, identity), identity)

-----------------------------------------------------------------------------
(* Payloads *)

\* payloadAAD()
AADWithoutStream(session, stream, nonce, length) == <<Info(session.grant), nonce, length>>
AAD(session, stream, nonce, length) == <<Info(session.grant), stream, nonce, length>>

\* A nonce of AES-GCM travels beside the ciphertext; with the other suite it is its prefix.
NonceSize(session) == IF session.grant.payloadSuite = "fips" THEN 0 ELSE 12

\* encrypt(stream) and decrypt(stream) of createPayloadCrypto, validatePayloadEnvelope
Encrypted(session, stream, length) ==
  [payloadSuite |-> session.grant.payloadSuite, payloadKeyId |-> session.grant.payloadKeyId,
   context |-> session.grant.context, nonce |-> NonceSize(session), length |-> length,
   box |-> Sealed(length, session.payloadKey, AAD(session, stream, NonceSize(session), length))]
Decrypted(session, stream, p) ==
  IF \/ p.payloadSuite # session.grant.payloadSuite \/ p.payloadKeyId # session.grant.payloadKeyId
     \/ p.context # session.grant.context \/ p.nonce # NonceSize(session)
  THEN {}
  ELSE OpenSealed(p.box, session.payloadKey, AAD(session, stream, p.nonce, p.length))

-----------------------------------------------------------------------------
(* Properties *)

PayloadStreams == {"stdin", "stdout", "stderr"}

\* The server has the client's payload key, under the same suite and context, exactly when it
\* is a recipient, once or more; a recipient whose key id another key claims may be left out,
\* but nobody else gets in.
\* (createWebTTYE2EClientPayloadCrypto, createWebTTYE2EServerPayloadCrypto)
GrantReachesRecipient ==
  LET client == Granted(keys.grant)
      server == Accepted(client, keys.identity)
      recipients == keys.grant.recipients
      named == {i \in DOMAIN recipients : IdOf(recipients[i]) = IdOf(keys.identity)}
      mine == {i \in named : recipients[i].key = keys.identity.key}
  IN ~client.refused =>
       /\ ~server.refused => mine # {} /\ server.payloadKey = client.payloadKey /\ server.grant = client.grant
       /\ mine # {} /\ mine = named /\ keys.identity.suite = Unset => ~server.refused

\* A payload is read as what was written only on its own stream of its own session, and not
\* with another length; sessions that reuse the payload key are told apart by its id and by
\* the recipients.  (payloadAAD, validatePayloadEnvelope)
PayloadOnItsStream ==
  LET mine == Granted(keys.grant)
      reads(theirs, stream, s, length, l) ==
        Decrypted(mine, s, [Encrypted(theirs, stream, length) EXCEPT !.length = l]) # {}
  IN ~mine.refused =>
       \A other \in Others \union {keys.grant} :
         LET theirs == Granted(other)
             same == ~theirs.refused /\ theirs.payloadKey = mine.payloadKey /\ theirs.grant = mine.grant
         IN ~theirs.refused =>
              \A stream, s \in PayloadStreams, length, l \in Lengths :
                reads(theirs, stream, s, length, l) <=> same /\ s = stream /\ l = length

\* A recorded session opens with the wrapped key of an envelope exactly when the live one opened,
\* for an identity that states its key id or was the only recipient, and the envelope is the first
\* with its key id: a key wrapped for somebody else never opens it, nor does the second one of a
\* recipient that was listed twice.  (createWebTTYE2EReplayPayloadCryptoFromKeyGrant)
RecordingReachesRecipient ==
  LET client == Granted(keys.grant)
      server == Accepted(client, keys.identity)
      replayed(i) == Replayed(client, client.envelopes[i].wrapped, keys.identity)
      stated == keys.identity.keyId # Unset \/ Len(client.envelopes) = 1
  IN ~client.refused =>
       \A i \in DOMAIN client.envelopes :
         /\ ~replayed(i).refused <=>
              ~server.refused /\ stated /\ i = First(EnvelopesFor(client, keys.identity))
         /\ ~replayed(i).refused =>
              replayed(i).payloadKey = client.payloadKey /\ keys.grant.recipients[i].key = keys.identity.key

\* All three: who shares a session's key with the client, and what it reads with it.
SessionKeysSound == GrantReachesRecipient /\ RecordingReachesRecipient /\ PayloadOnItsStream
=============================================================================
