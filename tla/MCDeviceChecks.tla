---------------------------- MODULE MCDeviceChecks ----------------------------
(***************************************************************************)
(* An instance of DeviceChecks for TLC.  Four entropies: one whose first   *)
(* attempt is accepted, one whose first attempt only solve_NTRU rejects,   *)
(* one whose first attempt has no public key, and one that is borderline   *)
(* for the device and accepted at the cap.                                 *)
(***************************************************************************)
EXTENDS DeviceChecks

Try(fails, borderline, pk) == [fails |-> fails, borderline |-> borderline, pk |-> pk]

MCKeys == {"k1", "k2", "k3"}

MCEntropies == {"first", "unsolved", "singular", "late"}

MCAttempts ==
    "first" :> <<Try({}, FALSE, "k1")>>
    @@ "unsolved" :> <<Try({"SolveFailed"}, FALSE, "k2"), Try({"SqNorm"}, FALSE, "k1"),
                       Try({}, FALSE, "k3")>>
    @@ "singular" :> <<Try({"BNorm", "NotInvertible"}, FALSE, "k1"),
                       Try({"SolveFailed"}, FALSE, "k3"), Try({}, FALSE, "k1")>>
    @@ "late" :> <<Try({"CoefLimit"}, FALSE, "k3"), Try({"BNorm"}, TRUE, "k2"),
                   Try({}, FALSE, "k2")>>

MCMatches == "k1" :> (0 :> {1} @@ 1 :> {1, 2}) @@ "k2" :> (0 :> {2} @@ 1 :> {1})
             @@ "k3" :> (0 :> {} @@ 1 :> {2})

MCCompliant == "k1" :> {0, 1} @@ "k2" :> {1} @@ "k3" :> {1}

\* All the batches of up to two hits, and some of three.
MCBatches ==
    {<<>>} \cup {<<h>> : h \in RawHits} \cup {<<h, i>> : h \in RawHits, i \in RawHits}
    \cup {<<h, i, j>> : h \in RawHits, i \in {r \in RawHits : r.entropy = "unsolved"},
                        j \in {r \in RawHits : r.entropy = "first"}}

MCSelfTests == {<<"late">>, <<"late", "late", "first">>,
                <<"first", "unsolved", "singular", "late">>}

\* Up to two faults.
MCFaultSets ==
    LET faults == [kind : Kinds, entropy : MCEntropies]
    IN {{}} \cup {{f, g} : f \in faults, g \in faults}
=============================================================================
