------------------------------ MODULE PqAddress ------------------------------
(***************************************************************************)
(* The addresses of a Falcon-1024 (f1) key pair, one per one-byte salt     *)
(* (crates/pq-core/src/address.rs).  The hash that maps (salt, public key) *)
(* to an address is abstracted to its two visible outcomes: which targets  *)
(* the displayed address matches and whether it is off-curve ("PQ          *)
(* compliant").  The constants fix those outcomes for each kind of key.    *)
(***************************************************************************)
EXTENDS TargetSet

CONSTANTS Keys,       \* kinds of key pair that keygen can return
          SaltSpace,  \* number of values of the salt byte (256 in the code)
          Matches,    \* Matches[k][s]: targets matched by k's address for salt s
          Compliant   \* Compliant[k]: the salts whose address is off-curve

Salts == 0 .. SaltSpace - 1

ASSUME PqAddressAssumption ==
    /\ SaltSpace \in Nat \ {0}
    /\ Matches \in [Keys -> [Salts -> SUBSET Targets]]
    /\ Compliant \in [Keys -> SUBSET Salts]

\* `salt as u8`: a u16 or u32 salt is truncated to the salt byte.
SaltByte(s) == s % SaltSpace

\* canonical_pq_salt: the lowest compliant salt, when there is one.
HasCanonicalSalt(k) == Compliant[k] # {}

CanonicalPqSalt(k) == CHOOSE s \in Compliant[k] : \A r \in Compliant[k] : s <= r
=============================================================================
