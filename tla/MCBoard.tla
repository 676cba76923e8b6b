-------------------------------- MODULE MCBoard -------------------------------
(* Small sets of strappings: every row of the tables, its neighbours, and    *)
(* pins left floating.                                                       *)
EXTENDS BoardSystem

OneOff(base) ==
  {base} \cup {[base EXCEPT ![p] = l] : p \in DOMAIN base, l \in Levels}

(* The lines of an extension board: driven in any way, or not there. *)
Extension == {<<5, 28>>, <<3, 14>>, <<3, 1>>, <<3, 0>>}
WithExtension(b) ==
  {[p \in RevisionPins(b) |-> IF p \in Extension THEN e[p] ELSE "low"] :
     e \in [Extension -> {"low", "high"}] \cup {[p \in Extension |-> "float"]}}

MCStrappings(b) ==
  CASE b = "aesys_2319a" -> {<<>>}
    [] b = "aesys_2409"  ->
         UNION {OneOff([p \in RevisionPins(b) |->
                   IF p = <<2, 2>> \/ (p = <<2, 9>> /\ high) THEN "high" ELSE "low"]) :
                high \in BOOLEAN}
    [] b \in {"aesys_2414", "aesys_2414_2g"} ->
         WithExtension(b) \cup OneOff([p \in RevisionPins(b) |-> "low"])
    [] OTHER -> OneOff([p \in RevisionPins(b) |-> "low"])
==============================================================================
