------------------------------ MODULE MCLabels ------------------------------
(***************************************************************************)
(* A small instance of Labels for TLC: valid, invalid, missing and padded  *)
(* labels, with and without index.                                         *)
(***************************************************************************)
EXTENDS Labels, TLC

CONSTANTS c1, c2, h1, h2, v1

MCHostname == "app" :> [host |-> h1, owner |-> 0, dot |-> FALSE] @@
              "web." :> [host |-> h2, owner |-> 0, dot |-> TRUE]
MCTargetText == "10.0.0.1" :> [kind |-> "ipv4", val |-> v1, canonical |-> TRUE] @@
                "FE80::1" :> [kind |-> "ipv6", val |-> v1, canonical |-> FALSE] @@
                "host" :> [kind |-> "hostname", val |-> v1, canonical |-> TRUE]
MCNumeral == "0" :> 0 @@ "60" :> 60 @@ "-1" :> -1
MCSpaced == " app " :> "app" @@ " 60" :> "60" @@ " " :> ""

L(field, i, s) == <<field, i>> :> s
Pair(i, h, t) == L("hostname", i, h) @@ L("target", i, t)

MCLabelMaps ==
  { Pair(Plain, "app", "10.0.0.1"),
    Pair(Plain, " app ", "FE80::1") @@ L("ttl", Plain, " 60") @@ Pair(0, "web.", "host"),
    Pair(Plain, "app", "10.0.0.1") @@ L("ttl", Plain, "-1") @@ Pair(0, "web.", "10.0.0.1"),
    Pair(Plain, "app", "999.0.0.1") @@ Pair(0, "app", "10.0.0.1") @@ L("record-type", 0, "MX"),
    L("hostname", 0, "app") @@ Pair(1, "web.", "host") @@ L("ttl", 1, "0"),
    Pair(0, " ", "host") @@ Pair(1, "app", "host") @@ L("ttl", 1, "soon")
      @@ Pair(2, "web.", "10.0.0.1") @@ L("ttl", 2, ""),
    L("target", Plain, "host") }

\* The index in the middle has been taken away.
GapLabelMaps == { Pair(0, "app", "10.0.0.1") @@ Pair(2, "web.", "10.0.0.1") }
=============================================================================
