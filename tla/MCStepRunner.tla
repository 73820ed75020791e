---------------------------- MODULE MCStepRunner ----------------------------
(* The registry of the project, and all registries of up to three steps that
   depend on each other, or on nothing known, in any way.                  *)
EXTENDS StepRunner, DeliverySteps

ProjectNames == { ProjectDelivery[i].name : i \in DOMAIN ProjectDelivery }
SmallNames == {"s1", "s2", "s3"}
MCNames == ProjectNames \cup SmallNames \cup {"unknown"}

Small(n, deps) == [i \in 1..n |->
  [name |-> <<"s1", "s2", "s3">>[i], deps |-> deps[i], reads |-> {}, needs |-> {},
   writes |-> {}, saves |-> i = n]]

SmallRegistries ==
  { <<>>, Small(1, <<{"unknown"}>>), Small(2, <<{"s2"}, {"unknown"}>>) }
  \cup { Small(3, deps) : deps \in [1..3 -> SUBSET SmallNames] }

ProjectRegistry == {ProjectDelivery}
MCRegistries == SmallRegistries \cup {ProjectDelivery}

(* A delivery of the project is given no options; a small one, all.        *)
MCOptions(r) ==
  IF r = ProjectDelivery THEN {NoOption}
  ELSE [from : 0 .. Len(r), until : 0 .. Len(r), force : BOOLEAN]
=============================================================================
