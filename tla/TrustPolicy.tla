---------------------------- MODULE TrustPolicy -----------------------------
(***************************************************************************)
(* The consumer's trust policy (policy.py).  A policy is a record          *)
(*   keys       : keyid -> [validFrom, validUntil], each bound a set of at *)
(*                most one instant (the empty set is an omitted bound)     *)
(*   identities : the configured keyless identities                        *)
(*   trustRoot  : is a Sigstore trust root loaded?                         *)
(*   rules      : the statement rules                                      *)
(*   handoff    : the handoff rule, freshness requirements included        *)
(*   required   : the policy's requiredProfiles                            *)
(* A signature is [keyid, keyless, good]; "good" abstracts the Ed25519 or  *)
(* Sigstore verification of the exact PAE bytes.  A profile reference's    *)
(* digest and closureDigest, which every constraint pins together or not   *)
(* at all, are the one field dig.  The selectors sourceKinds, sourceUris   *)
(* and operationTypes are the one selector kinds.                          *)
(***************************************************************************)
EXTENDS Integers, FiniteSets

\* Mutant of KeyValidAt: a key is still good at the instant it expires.
KeyValidThrough(policy, keyid, t) ==
  /\ \A b \in policy.keys[keyid].validFrom  : b <= t
  /\ \A b \in policy.keys[keyid].validUntil : t <= b

\* _key_valid_at: the half-open window validFrom <= t < validUntil.
KeyValidAt(policy, keyid, t) ==
  /\ \A b \in policy.keys[keyid].validFrom  : b <= t
  /\ \A b \in policy.keys[keyid].validUntil : t < b

SignerValidAt(policy, keyid, t) ==
  keyid \in policy.identities \/ KeyValidAt(policy, keyid, t)

KeyKnown(policy, s) ==
  IF s.keyless THEN s.keyid \in policy.identities
               ELSE s.keyid \in DOMAIN policy.keys

Cryptographic(policy, s) ==
  IF ~KeyKnown(policy, s) THEN "not_checked"
  ELSE IF s.good /\ (s.keyless => policy.trustRoot) THEN "pass" ELSE "fail"

PassingSigners(policy, sigs, t) ==
  {s.keyid : s \in {x \in sigs : /\ Cryptographic(policy, x) = "pass"
                                 /\ SignerValidAt(policy, x.keyid, t)}}

MeetsThreshold(policy, rule, sigs, t) ==
  Cardinality(PassingSigners(policy, sigs, t) \cap rule.signers) >= rule.minimum

ProfileConstraintMatches(constraint, profile) ==
  /\ profile.id = constraint.id
  /\ profile.target = constraint.target
  /\ \A g \in constraint.dig : profile.dig = g

RuleMatches(rule, st) ==
  /\ st.type \in rule.types
  /\ \A ks \in rule.kinds : st.kind \in ks
  /\ \A k \in rule.constraints :
       \E p \in st.profiles : ProfileConstraintMatches(k, p)

\* authorize_statement: the Step 6 candidate rules.
CandidateRules(policy, st, sigs, t) ==
  {r \in policy.rules : RuleMatches(r, st) /\ MeetsThreshold(policy, r, sigs, t)}

\* finalize_statement_authorization: the candidates whose digest-pinned
\* constraints name a profile that passed Step 7; passed is that set.
AuthorizingRules(candidates, st, passed) ==
  {r \in candidates : \A k \in r.constraints :
     k.dig # {} => \E p \in st.profiles : /\ ProfileConstraintMatches(k, p)
                                          /\ p \in passed}

HandoffAuthorized(policy, sigs, t) ==
  MeetsThreshold(policy, policy.handoff, sigs, t)
=============================================================================
