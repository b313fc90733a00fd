----------------------------- MODULE MCStartup -----------------------------
(***************************************************************************)
(* Small instances of Startup for TLC.                                     *)
(***************************************************************************)
EXTENDS Startup, TLC

Nothing == [o \in TextOption \cup NumberOption |-> ""]
NoFlags == [o \in TextOption \cup NumberOption |-> NotGiven]
With(base, given) == given @@ base

MCNumeral == "0" :> 0 @@ "1" :> 1 @@ "2" :> 2 @@ "-2" :> -2
MCFiles == "/secret" :> "from-file"

Single == "rfc2136Host" :> "ns1" @@ "rfc2136Zone" :> "example.com."
File == "rfc2136ConfigFile" :> "zones.yaml"

Entry(host, zone, secret, file, timeout) ==
  [ZeroConfig EXCEPT !.Host = host, !.Zone = zone, !.TSIGSecret = secret,
                     !.TSIGSecretFile = file, !.Timeout = timeout]

\* Every combination of modes, incomplete ones too; the timeouts are short so
\* that an answer can be late.
MixFlags ==
  {With(NoFlags, "rfc2136Timeout" :> "2" @@ g) :
     g \in {Single, "rfc2136Zone" :> "example.com.", "rfc2136Host" :> "", File, File @@ Single,
            Single @@ "rfc2136TSIGSecret" :> "inline"
                   @@ "rfc2136TSIGSecretFile" :> "/secret"}}
  \cup {NoFlags, With(NoFlags, Single @@ "interval" :> "soon")}
MixEnv ==
  {With(Nothing, g) :
     g \in {Single @@ "skipPreflight" :> "1" @@ "interval" :> "-2" @@ "backoffBase" :> "5 s",
            "rfc2136TSIGSecretFile" :> "/nowhere", "interval" :> "2"}}

\* Two zones whose names and fields share words, with a secret given twice;
\* variables without a name or a field; incomplete and unparsable zones.
Var(key, val) == [key |-> key, val |-> val]
ZoneA == {Var(<<"A", "HOST">>, "ns1"), Var(<<"A", "ZONE">>, "a.test.")}
ZoneAZone == {Var(<<"A", "ZONE", "HOST">>, "ns2"), Var(<<"A", "ZONE", "ZONE">>, "b.test.")}
Secrets == {Var(<<"A", "TSIG", "SECRET">>, "inline"),
            Var(<<"A", "TSIG", "SECRET", "FILE">>, "/secret")}
Rest == {Var(<<"A", "ZONE", "PORT">>, "2"), Var(<<"A", "TSIG", "KEY">>, "key"),
         Var(<<"A", "TSIG", "ALG">>, "hmac-sha512"), Var(<<"A", "MIN", "TTL">>, "2"),
         Var(<<"A", "TIMEOUT">>, "-2")}
Stray == {Var(<<"", "HOST">>, "ns3"), Var(<<"ZONE">>, "c.test.")}
MixVars ==
  { {}, Stray, ZoneA, ZoneA \cup Stray, ZoneA \cup ZoneAZone \cup Secrets,
    ZoneA \cup ZoneAZone \cup Rest, ZoneAZone \cup Secrets, ZoneA \cup {Var(<<"A", "TSIG", "SECRET", "FILE">>, "/nowhere")},
    ZoneA \cup {Var(<<"A", "TIMEOUT">>, "soon")}, ZoneA \cup {Var(<<"A", "TIMEOUT">>, "1")} }
MCRank == <<"A">> :> 1 @@ <<"A", "ZONE">> :> 2

MixYaml ==
  { [parses |-> FALSE, zones |-> <<>>] } \cup { [parses |-> TRUE, zones |-> z] : z \in {
    << Entry("ns1", "a.test.", "inline", "", "2"), Entry("ns2", "b.test.", "", "/secret", "1") >>,
    << Entry("ns1", "a.test.", "inline", "/secret", "") >>,
    << Entry("ns1", "", "", "", "") >>, << Entry("ns1", "a.test.", "", "", "soon") >> }}

\* A file beside the TSIG key of a single zone.
KeyFlags == {With(NoFlags, File @@ "rfc2136TSIGKey" :> "key")}
OneEntry == { [parses |-> TRUE, zones |-> << Entry("ns1", "a.test.", "", "", "") >>] }

\* A file without zones.
FileFlags == {With(NoFlags, File)}
NoEntry == { [parses |-> TRUE, zones |-> <<>>] }

\* One zone and a timeout of zero.
ZeroFlags == {With(NoFlags, Single @@ "rfc2136Timeout" :> "0")}
NoEnv == {Nothing}
NoVars == {{}}
=============================================================================
