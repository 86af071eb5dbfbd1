----------------------------- MODULE ReceiverAuth -----------------------------
(***************************************************************************)
(* How the receiving API decides whether a bearer token names a service it *)
(* serves (worker/receiver_auth.py).                                       *)
(*                                                                         *)
(* A token is the record of its header and claims, with the key that       *)
(* really signed it; a key set is the snapshot the server pinned.  Base64, *)
(* JSON and the signature arithmetic are left out: a token that does not   *)
(* decode is a record that satisfies none of the conditions below.         *)
(***************************************************************************)
EXTENDS Integers, FiniteSets

CONSTANTS
    Receiver,       \* the ReceiverPolicy of the server
    KeySet          \* the snapshot it loaded its public keys from

\* AllowedService, ReceiverPolicy.__post_init__: what a policy must satisfy.
PolicyIsValid(p) ==
    /\ p.version \in {"1.0", "2.0"}
    /\ p.services # {} /\ Cardinality(p.services) <= 64
    /\ p.roles # {} /\ Cardinality(p.roles) <= 16
    /\ p.keysUntil > 0 /\ p.lifetime \in 1..86400
    /\ p.skew \in 0..300
    /\ p.enabled \in BOOLEAN

\* _load_keys: the keys of the pinned snapshot, by the issuer of the policy.
LoadedKeys ==
    IF /\ Receiver.enabled
       /\ KeySet.digest = Receiver.keysDigest
       /\ KeySet.issuer = Receiver.issuer
       /\ Cardinality(KeySet.keys) \in 1..16
    THEN KeySet.keys ELSE {}

ASSUME ReceiverAssumption ==
    PolicyIsValid(Receiver) /\ (Receiver.enabled => LoadedKeys # {})

\* _check_available
Available(now) == Receiver.enabled /\ now >= 0 /\ now < Receiver.keysUntil

\* The cheap filters of __call__ before the signature is verified.
Plausible(t) ==
    /\ t.algorithm = "RS256" /\ t.key \in LoadedKeys
    /\ t.issued < t.expires /\ t.notBefore < t.expires
    /\ t.expires - t.issued <= Receiver.lifetime
    /\ t.issuer = Receiver.issuer /\ t.audience = Receiver.audience
    /\ t.version = Receiver.version /\ t.kind = "app"
    /\ Receiver.roles \subseteq t.roles
    /\ t.service \in Receiver.services

\* jwt.decode with the leeway of the policy.
Verified(t, now) ==
    /\ t.signedBy = t.key
    /\ t.expires > now - Receiver.skew
    /\ t.notBefore <= now + Receiver.skew
    /\ t.issued <= now + Receiver.skew

\* __call__: the keys must be available when the token arrives and still be
\* when its signature has been verified.
Accepts(t, arrived, verified) ==
    Available(arrived) /\ Plausible(t) /\ Verified(t, verified) /\ Available(verified)

\* from_headers: one Authorization header, and it is a bearer token.
FromHeaders(tokens, arrived, verified) ==
    Cardinality(tokens) = 1 /\ \A t \in tokens : Accepts(t, arrived, verified)
=============================================================================
