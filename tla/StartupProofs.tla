--------------------------- MODULE StartupProofs ---------------------------
(***************************************************************************)
(* Theorems about Startup: for every command line, environment and zone    *)
(* file, the invariants that the run checks on a few of them.              *)
(***************************************************************************)
EXTENDS Startup, FiniteSetTheorems, SequenceTheorems, TLAPS

-----------------------------------------------------------------------------
(* The keys of zone variables. *)

Suffix(k) == zoneFieldSetters[k].suffix

\* The last word of a suffix tells the fields apart.
LastWord ==
  <<"FILE", "SECRET", "KEY", "ALG", "TTL", "TIMEOUT", "HOST", "PORT", "ZONE">>

\* A word of a key.  (To the provers a literal is not an element of STRING.)
Word == STRING \cup {LastWord[k] : k \in 1 .. 9} \cup {"TSIG", "SECRET", "MIN", ""}

\* The nine fields, their suffixes and which of them are parsed.
LEMMA Setters ==
  /\ DOMAIN zoneFieldSetters = 1 .. 9
  /\ \A k \in 1 .. 9 : zoneFieldSetters[k].parsed \in BOOLEAN
  /\ \A k \in 1 .. 9 : zoneFieldSetters[k].field \in DOMAIN ZeroConfig
  /\ \A k \in 1 .. 9 :
       zoneFieldSetters[k].parsed <=> zoneFieldSetters[k].field \in {"MinTTL", "Timeout", "Port"}
  /\ \A j, k \in 1 .. 9 : zoneFieldSetters[j].field = zoneFieldSetters[k].field => j = k
<1>1. DOMAIN zoneFieldSetters = 1 .. 9
  BY DEF zoneFieldSetters
<1>2. \A k \in 1 .. 9 : \/ k = 1 \/ k = 2 \/ k = 3 \/ k = 4 \/ k = 5
                        \/ k = 6 \/ k = 7 \/ k = 8 \/ k = 9
  OBVIOUS
<1>3. /\ zoneFieldSetters[1].field = "TSIGSecretFile" /\ zoneFieldSetters[1].parsed = FALSE
      /\ zoneFieldSetters[2].field = "TSIGSecret" /\ zoneFieldSetters[2].parsed = FALSE
      /\ zoneFieldSetters[3].field = "TSIGKey" /\ zoneFieldSetters[3].parsed = FALSE
      /\ zoneFieldSetters[4].field = "TSIGAlg" /\ zoneFieldSetters[4].parsed = FALSE
      /\ zoneFieldSetters[5].field = "MinTTL" /\ zoneFieldSetters[5].parsed = TRUE
      /\ zoneFieldSetters[6].field = "Timeout" /\ zoneFieldSetters[6].parsed = TRUE
      /\ zoneFieldSetters[7].field = "Host" /\ zoneFieldSetters[7].parsed = FALSE
      /\ zoneFieldSetters[8].field = "Port" /\ zoneFieldSetters[8].parsed = TRUE
      /\ zoneFieldSetters[9].field = "Zone" /\ zoneFieldSetters[9].parsed = FALSE
  BY DEF zoneFieldSetters
<1>4. \A j, k \in 1 .. 9 : zoneFieldSetters[j].field = zoneFieldSetters[k].field => j = k
  BY <1>2, <1>3
<1>5. \A k \in 1 .. 9 : zoneFieldSetters[k].parsed \in BOOLEAN
  BY <1>2, <1>3
<1>6. \A k \in 1 .. 9 : zoneFieldSetters[k].field \in DOMAIN ZeroConfig
  BY <1>2, <1>3 DEF ZeroConfig
<1>7. \A k \in 1 .. 9 :
        zoneFieldSetters[k].parsed <=> zoneFieldSetters[k].field \in {"MinTTL", "Timeout", "Port"}
  BY <1>2, <1>3
<1> QED
  BY <1>1, <1>4, <1>5, <1>6, <1>7

\* Each field with its suffix; three of the fields are numbers.
LEMMA SetterTable ==
  /\ zoneFieldSetters[1].field = "TSIGSecretFile" /\ Suffix(1) = <<"TSIG", "SECRET", "FILE">>
  /\ zoneFieldSetters[2].field = "TSIGSecret" /\ Suffix(2) = <<"TSIG", "SECRET">>
  /\ zoneFieldSetters[3].field = "TSIGKey" /\ Suffix(3) = <<"TSIG", "KEY">>
  /\ zoneFieldSetters[4].field = "TSIGAlg" /\ Suffix(4) = <<"TSIG", "ALG">>
  /\ zoneFieldSetters[5].field = "MinTTL" /\ Suffix(5) = <<"MIN", "TTL">>
  /\ zoneFieldSetters[6].field = "Timeout" /\ Suffix(6) = <<"TIMEOUT">>
  /\ zoneFieldSetters[7].field = "Host" /\ Suffix(7) = <<"HOST">>
  /\ zoneFieldSetters[8].field = "Port" /\ Suffix(8) = <<"PORT">>
  /\ zoneFieldSetters[9].field = "Zone" /\ Suffix(9) = <<"ZONE">>
  /\ \A k \in {1, 2, 3, 4, 7, 9} : zoneFieldSetters[k].parsed = FALSE
  /\ \A k \in {5, 6, 8} : zoneFieldSetters[k].parsed = TRUE
  BY DEF zoneFieldSetters, Suffix

\* A field that is not set is zero or empty.
LEMMA UnsetFields ==
  \A k \in 1 .. 9 :
    ZeroConfig[zoneFieldSetters[k].field] = IF zoneFieldSetters[k].parsed THEN 0 ELSE ""
<1>1. /\ ZeroConfig.Host = "" /\ ZeroConfig.Zone = "" /\ ZeroConfig.Timeout = 0
      /\ ZeroConfig.TSIGSecret = "" /\ ZeroConfig.TSIGSecretFile = ""
      /\ ZeroConfig.TSIGKey = "" /\ ZeroConfig.TSIGAlg = ""
      /\ ZeroConfig.Port = 0 /\ ZeroConfig.MinTTL = 0
  BY DEF ZeroConfig
<1>2. \A k \in 1 .. 9 : k \in {1, 2, 3, 4, 7, 9} \/ k \in {5, 6, 8}
  OBVIOUS
<1> HIDE DEF ZeroConfig
<1>3. ASSUME NEW k \in {1, 2, 3, 4, 7, 9}
      PROVE  ZeroConfig[zoneFieldSetters[k].field] = "" /\ zoneFieldSetters[k].parsed = FALSE
  <2>1. zoneFieldSetters[k].parsed = FALSE
    BY SetterTable, Zenon
  <2>2. /\ ZeroConfig[zoneFieldSetters[1].field] = "" /\ ZeroConfig[zoneFieldSetters[2].field] = ""
        /\ ZeroConfig[zoneFieldSetters[3].field] = "" /\ ZeroConfig[zoneFieldSetters[4].field] = ""
        /\ ZeroConfig[zoneFieldSetters[7].field] = "" /\ ZeroConfig[zoneFieldSetters[9].field] = ""
    BY <1>1, SetterTable, Zenon
  <2> QED BY <2>1, <2>2, Zenon
<1>4. ASSUME NEW k \in {5, 6, 8}
      PROVE  ZeroConfig[zoneFieldSetters[k].field] = 0 /\ zoneFieldSetters[k].parsed = TRUE
  BY <1>1, SetterTable, Zenon
<1> QED BY <1>2, <1>3, <1>4, Zenon

\* A suffix is a sequence of one to three words, and its last word is its own.
LEMMA Suffixes ==
  /\ \A k \in 1 .. 9 : /\ Suffix(k) \in Seq(Word) /\ Suffix(k) # <<>>
                       /\ Len(Suffix(k)) \in 1 .. 3
                       /\ Suffix(k)[Len(Suffix(k))] = LastWord[k]
  /\ \A j, k \in 1 .. 9 : LastWord[j] = LastWord[k] => j = k
<1>2. \A k \in 1 .. 9 : \/ k = 1 \/ k = 2 \/ k = 3 \/ k = 4 \/ k = 5
                        \/ k = 6 \/ k = 7 \/ k = 8 \/ k = 9
  OBVIOUS
<1>3. /\ Suffix(1) = <<"TSIG", "SECRET", "FILE">>
      /\ Suffix(2) = <<"TSIG", "SECRET">>
      /\ Suffix(3) = <<"TSIG", "KEY">>
      /\ Suffix(4) = <<"TSIG", "ALG">>
      /\ Suffix(5) = <<"MIN", "TTL">>
      /\ Suffix(6) = <<"TIMEOUT">>
      /\ Suffix(7) = <<"HOST">>
      /\ Suffix(8) = <<"PORT">>
      /\ Suffix(9) = <<"ZONE">>
  BY DEF zoneFieldSetters, Suffix
<1>4. /\ LastWord[1] = "FILE" /\ LastWord[2] = "SECRET" /\ LastWord[3] = "KEY"
      /\ LastWord[4] = "ALG" /\ LastWord[5] = "TTL" /\ LastWord[6] = "TIMEOUT"
      /\ LastWord[7] = "HOST" /\ LastWord[8] = "PORT" /\ LastWord[9] = "ZONE"
  BY DEF LastWord
<1>5. \A j, k \in 1 .. 9 : LastWord[j] = LastWord[k] => j = k
  BY <1>2, <1>4
<1>0. /\ \A k \in 1 .. 9 : LastWord[k] \in Word
      /\ "TSIG" \in Word /\ "SECRET" \in Word /\ "MIN" \in Word
  BY DEF Word
<1> HIDE DEF Word
<1>6. ASSUME NEW k \in 1 .. 9
      PROVE  /\ Suffix(k) \in Seq(Word) /\ Suffix(k) # <<>>
             /\ Len(Suffix(k)) \in 1 .. 3
             /\ Suffix(k)[Len(Suffix(k))] = LastWord[k]
  <2>1. \A a, b, c \in Word :
          <<a>> \in Seq(Word) /\ <<a, b>> \in Seq(Word) /\ <<a, b, c>> \in Seq(Word)
    OBVIOUS
  <2>2. LastWord[k] \in Word
    BY <1>0
  <2>3. \/ Suffix(k) = <<LastWord[k]>>
        \/ \E a \in Word : Suffix(k) = <<a, LastWord[k]>>
        \/ \E a, b \in Word : Suffix(k) = <<a, b, LastWord[k]>>
    BY <1>0, <1>2, <1>3, <1>4
  <2>4. CASE Suffix(k) = <<LastWord[k]>>
    BY <2>1, <2>2, <2>4
  <2>5. CASE \E a \in Word : Suffix(k) = <<a, LastWord[k]>>
    BY <2>1, <2>2, <2>5
  <2>6. CASE \E a, b \in Word : Suffix(k) = <<a, b, LastWord[k]>>
    BY <2>1, <2>2, <2>6
  <2> QED BY <2>3, <2>4, <2>5, <2>6
<1> QED BY <1>5, <1>6

\* A key has at most one field: the last words differ.
LEMMA OneField ==
  ASSUME NEW key \in Seq(Word), NEW k \in Matching(key)
  PROVE  /\ k \in 1 .. 9
         /\ Matching(key) = {k}
         /\ SetterOf(key) = zoneFieldSetters[k]
<1>1. ASSUME NEW j \in Matching(key)
      PROVE  j \in 1 .. 9 /\ key[Len(key)] = LastWord[j]
  <2>1. j \in 1 .. 9 /\ HasSuffix(key, Suffix(j))
    BY Setters DEF Matching, Suffix
  <2>2. Suffix(j) \in Seq(Word) /\ Len(Suffix(j)) \in 1 .. 3
        /\ Suffix(j)[Len(Suffix(j))] = LastWord[j]
    BY <2>1, Suffixes
  <2>3. Len(key) \in Nat /\ Len(key) > Len(Suffix(j))
        /\ SubSeq(key, Len(key) - Len(Suffix(j)) + 1, Len(key)) = Suffix(j)
    BY <2>1 DEF HasSuffix
  <2> DEFINE d == Len(Suffix(j))
  <2>4. SubSeq(key, Len(key) - d + 1, Len(key))[d] = key[Len(key) - d + 1 + d - 1]
    <3> HIDE DEF d
    <3>1. d \in 1 .. 3 /\ Len(key) > d BY <2>2, <2>3 DEF d
    <3> QED BY <3>1, <2>3, SubSeqProperties
  <2> QED BY <2>1, <2>2, <2>3, <2>4
<1>2. Matching(key) = {k}
  BY <1>1, Suffixes
<1>3. (CHOOSE i \in Matching(key) : \A j \in Matching(key) : i <= j) = k
  BY <1>2, <1>1
<1> QED
  BY <1>1, <1>2, <1>3 DEF SetterOf

\* Cutting a sequence that was put together from two.
LEMMA SplitConcat ==
  ASSUME NEW S, NEW n \in Seq(S), NEW s \in Seq(S), n # <<>>, s # <<>>
  PROVE  /\ n \o s \in Seq(S)
         /\ Len(n \o s) > Len(s)
         /\ SubSeq(n \o s, 1, Len(n \o s) - Len(s)) = n
         /\ SubSeq(n \o s, Len(n \o s) - Len(s) + 1, Len(n \o s)) = s
<1> DEFINE a == Len(n)
           b == Len(s)
<1>1. a \in Nat \ {0} /\ b \in Nat \ {0}
  BY EmptySeq
<1>2. n \o s \in Seq(S) /\ Len(n \o s) = a + b
  BY ConcatProperties
<1>3. SubSeq(n \o s, 1, a) = n
  <2>1. SubSeq(n \o s, 1, a) = SubSeq(n, 1, a)
    BY <1>1, SubSeqOfConcat1
  <2> QED BY <2>1, SubSeqFull
<1>4. SubSeq(n \o s, a + 1, a + b) = s
  <2>1. a + 1 \in Len(n) + 1 .. Len(n) + Len(s) /\ a + b \in Len(n) + 1 .. Len(n) + Len(s)
    BY <1>1
  <2>2. SubSeq(n \o s, a + 1, a + b) = SubSeq(s, a + 1 - Len(n), a + b - Len(n))
    BY <2>1, SubSeqOfConcat2
  <2>3. a + 1 - Len(n) = 1 /\ a + b - Len(n) = Len(s)
    BY <1>1
  <2> QED BY <2>2, <2>3, SubSeqFull
<1>5. a + b > b /\ a + b - b = a
  BY <1>1
<1> QED BY <1>2, <1>3, <1>4, <1>5

\* A variable whose key is a name with a suffix is read as that field of that name ...
LEMMA KeyIsRead ==
  ASSUME NEW n \in Seq(Word), n # <<>>, NEW k \in 1 .. 9
  PROVE  /\ n \o Suffix(k) \in Seq(Word)
         /\ n # <<"">> => Known(n \o Suffix(k))
         /\ SetterOf(n \o Suffix(k)) = zoneFieldSetters[k]
         /\ NameOf(n \o Suffix(k)) = n
<1> DEFINE s == Suffix(k)
           key == n \o s
<1>1. s \in Seq(Word) /\ s # <<>>
  BY Suffixes
<1>2. /\ key \in Seq(Word)
      /\ Len(key) > Len(s)
      /\ SubSeq(key, 1, Len(key) - Len(s)) = n
      /\ SubSeq(key, Len(key) - Len(s) + 1, Len(key)) = s
  BY <1>1, SplitConcat
<1> HIDE DEF key
<1>3. k \in Matching(key)
  BY <1>2, Setters DEF Matching, HasSuffix, Suffix
<1>4. SetterOf(key) = zoneFieldSetters[k]
  BY <1>2, <1>3, OneField
<1>5. NameOf(key) = n
  BY <1>2, <1>4 DEF NameOf, Suffix
<1> QED
  BY <1>2, <1>3, <1>4, <1>5 DEF Known, key

\* ... and only such a variable is.
LEMMA ReadIsKey ==
  ASSUME NEW key \in Seq(Word), Known(key)
  PROVE  \E k \in 1 .. 9 : /\ SetterOf(key) = zoneFieldSetters[k]
                           /\ key = NameOf(key) \o Suffix(k)
                           /\ NameOf(key) \in Seq(Word)
                           /\ NameOf(key) # <<>> /\ NameOf(key) # <<"">>
<1>1. PICK k \in Matching(key) : TRUE
  BY DEF Known
<1>2. k \in 1 .. 9 /\ SetterOf(key) = zoneFieldSetters[k]
  BY <1>1, OneField
<1> DEFINE s == Suffix(k)
<1>3. s \in Seq(Word) /\ Len(s) \in 1 .. 3
  BY <1>2, Suffixes
<1>4. HasSuffix(key, s)
  BY <1>1 DEF Matching, Suffix
<1> HIDE DEF s
<1>5. NameOf(key) = SubSeq(key, 1, Len(key) - Len(s))
  BY <1>2 DEF NameOf, s, Suffix
<1>6. key = SubSeq(key, 1, Len(key) - Len(s)) \o s
  <2> DEFINE m == Len(key) - Len(s)
  <2>1. /\ m \in 1 .. Len(key) /\ Len(key) \in Nat /\ 1 \in 1 .. Len(key) + 1
        /\ m \in 1 - 1 .. Len(key) /\ Len(key) \in m .. Len(key)
    BY <1>3, <1>4 DEF HasSuffix
  <2>2. SubSeq(key, m + 1, Len(key)) = s
    BY <1>4 DEF HasSuffix
  <2> HIDE DEF m
  <2>3. SubSeq(key, 1, m) \o SubSeq(key, m + 1, Len(key)) = SubSeq(key, 1, Len(key))
    BY <2>1, ConcatAdjacentSubSeq
  <2> QED BY <2>2, <2>3, SubSeqFull DEF m
<1>7. NameOf(key) \in Seq(Word) /\ NameOf(key) # <<>>
  <2> DEFINE m == Len(key) - Len(s)
  <2>1. m \in 1 .. Len(key)
    BY <1>3, <1>4 DEF HasSuffix
  <2>2. \A i \in 1 .. m : key[i] \in Word
    BY <2>1, ElementOfSeq
  <2> HIDE DEF m
  <2>3. SubSeq(key, 1, m) \in Seq(Word) /\ Len(SubSeq(key, 1, m)) = m
    BY <2>1, <2>2, SubSeqProperties
  <2>4. SubSeq(key, 1, m) # <<>>
    BY <2>1, <2>3, EmptySeq
  <2> QED BY <1>5, <2>3, <2>4 DEF m
<1>8. NameOf(key) # <<"">>
  BY DEF Known
<1> QED
  BY <1>2, <1>5, <1>6, <1>7, <1>8 DEF s

-----------------------------------------------------------------------------
(* Zone configurations. *)

Field == DOMAIN ZeroConfig

\* A ZoneConfig: a record with its fields, of which the timeout is a number.
IsConfig(zc) == /\ DOMAIN zc = Field
                /\ zc = [f \in Field |-> zc[f]]
                /\ zc.Timeout \in Int

\* What TypeOK says of a provider's configuration.
Usable(zc) == /\ zc.TSIGSecretFile = ""
              /\ zc.Timeout > 0
              /\ zc.Host # "" /\ zc.Zone # ""

\* The names of the fields.
LEMMA Fieldnames ==
  Field = {"Host", "Zone", "TSIGKey", "TSIGSecret", "TSIGSecretFile", "TSIGAlg", "Port",
           "MinTTL", "Timeout"}
  BY DEF Field, ZeroConfig

\* The configuration of a name starts out as the zero value.
LEMMA ZeroIsConfig ==
  /\ IsConfig(ZeroConfig)
  /\ ZeroConfig.Host = "" /\ ZeroConfig.Zone = ""
  /\ ZeroConfig.TSIGSecret = "" /\ ZeroConfig.TSIGSecretFile = ""
<1>1. /\ ZeroConfig.Host = "" /\ ZeroConfig.Zone = "" /\ ZeroConfig.Timeout = 0
      /\ ZeroConfig.TSIGSecret = "" /\ ZeroConfig.TSIGSecretFile = ""
  BY DEF ZeroConfig
<1>2. ZeroConfig = [f \in DOMAIN ZeroConfig |-> ZeroConfig[f]]
  BY DEF ZeroConfig
<1>3. IsConfig(ZeroConfig)
  <2>1. 0 \in Int
    OBVIOUS
  <2> QED BY <1>1, <1>2, <2>1, Zenon DEF IsConfig, Field
<1> QED BY <1>1, <1>3

\* rfc2136.New makes a usable configuration of a complete one, whatever the
\* timeout was, and leaves the rest as it is.
LEMMA NewIsUsable ==
  ASSUME NEW zc, IsConfig(zc), Complete(zc)
  PROVE  /\ Usable(New(Resolved(zc)))
         /\ New(Resolved(zc)).Host = zc.Host
         /\ New(Resolved(zc)).Zone = zc.Zone
         /\ New(Resolved(zc)).TSIGSecret = Secret(zc)
<1> DEFINE r == Resolved(zc)
<1>1. /\ DOMAIN r = Field
      /\ r.TSIGSecretFile = "" /\ r.TSIGSecret = Secret(zc)
      /\ r.Host = zc.Host /\ r.Zone = zc.Zone /\ r.Timeout = zc.Timeout
  BY Fieldnames DEF IsConfig, Resolved
<1> HIDE DEF r
<1>2. /\ New(r).Timeout = IF r.Timeout <= 0 THEN 10 ELSE r.Timeout
      /\ New(r).TSIGSecretFile = r.TSIGSecretFile /\ New(r).TSIGSecret = r.TSIGSecret
      /\ New(r).Host = r.Host /\ New(r).Zone = r.Zone
  BY <1>1, Fieldnames DEF New
<1>3. r.Timeout \in Int /\ zc.Host # "" /\ zc.Zone # ""
  BY <1>1 DEF IsConfig, Complete
<1>4. New(r).Timeout > 0
  <2>1. \A t \in Int : (IF t <= 0 THEN 10 ELSE t) > 0
    OBVIOUS
  <2> QED BY <1>2, <1>3, <2>1, Zenon
<1> QED BY <1>1, <1>2, <1>3, <1>4, Zenon DEF Usable, r

\* The same for a valid entry of the file.
LEMMA EntryIsUsable ==
  ASSUME NEW z \in YamlEntry, ValidEntry(z)
  PROVE  Usable(New(FromEntry(z)))
<1> DEFINE r == Resolved(z)
           e == FromEntry(z)
<1>0. DOMAIN z = Field
  BY Fieldnames DEF YamlEntry
<1>1. /\ DOMAIN r = Field
      /\ r.TSIGSecretFile = "" /\ r.Timeout = z.Timeout
      /\ r.Host = z.Host /\ r.Zone = z.Zone
  BY <1>0, Fieldnames DEF Resolved
<1>2. e = [r EXCEPT !.Timeout = IF r.Timeout = "" THEN 0 ELSE Numeral[r.Timeout]]
  BY DEF FromEntry
<1> HIDE DEF r, e
<1>3. /\ DOMAIN e = Field
      /\ e.TSIGSecretFile = "" /\ e.Host = z.Host /\ e.Zone = z.Zone
      /\ e.Timeout = IF z.Timeout = "" THEN 0 ELSE Numeral[z.Timeout]
  BY <1>1, <1>2, Fieldnames
<1>4. e.Timeout \in Int
  <2>1. z.Timeout # "" => z.Timeout \in DOMAIN Numeral
    BY DEF ValidEntry
  <2>2. z.Timeout # "" => Numeral[z.Timeout] \in Int
    BY <2>1, InputsAssumption
  <2>3. 0 \in Int
    OBVIOUS
  <2> QED BY <1>3, <2>2, <2>3, Zenon
<1>5. /\ New(e).Timeout = IF e.Timeout <= 0 THEN 10 ELSE e.Timeout
      /\ New(e).TSIGSecretFile = e.TSIGSecretFile
      /\ New(e).Host = e.Host /\ New(e).Zone = e.Zone
  BY <1>3, Fieldnames DEF New
<1>6. z.Host # "" /\ z.Zone # ""
  BY DEF ValidEntry, Complete
<1>7. New(e).Timeout > 0
  <2>1. \A t \in Int : (IF t <= 0 THEN 10 ELSE t) > 0
    OBVIOUS
  <2> QED BY <1>4, <1>5, <2>1, Zenon
<1> QED BY <1>3, <1>5, <1>6, <1>7, Zenon DEF Usable, e

-----------------------------------------------------------------------------
(* Numbers. *)

\* Once the flags have been parsed every setting with a number has one.
Parsed == \A o \in NumberOption : flag[o] \in DOMAIN Numeral \cup {NotGiven}

LEMMA NumberIsInt ==
  ASSUME Parsed
  PROVE  \A o \in NumberOption : Number(o) \in Int
<1>1. \A o \in NumberOption : Default[o] \in Int
  BY DEF NumberOption, Default
<1> QED BY <1>1, InputsAssumption DEF Number, Parsed

-----------------------------------------------------------------------------
(* The inductive invariant. *)

Read == environ \ unread

InputsGiven == /\ flag \in FlagInputs /\ env \in EnvInputs
               /\ environ \in ZoneInputs /\ yaml \in YamlInputs

\* The map of configurations holds what the variables read so far say, and
\* nothing else, field by field.
Value(k, v) == IF zoneFieldSetters[k].parsed THEN Numeral[v.val] ELSE v.val

FieldRead(n, k) ==
  LET field == zoneFieldSetters[k].field
  IN  /\ \A v \in Read : v.key = n \o Suffix(k) => configs[n][field] = Value(k, v)
      /\ (\A v \in Read : v.key # n \o Suffix(k)) => configs[n][field] = ZeroConfig[field]

ConfigsRead ==
  /\ IsFiniteSet(DOMAIN configs)
  /\ DOMAIN configs = {NameOf(v.key) : v \in {w \in Read : Known(w.key)}}
  /\ \A n \in DOMAIN configs : IsConfig(configs[n])
  /\ \A n \in DOMAIN configs : \A k \in 1 .. 9 : FieldRead(n, k)

\* What each stage of main leaves behind for the next one.
Stages ==
  /\ pc \in {"scan", "select", "preflight", "running"} => Parsed
  /\ pc \in {"parse", "scan", "select"} => answers = <<>> /\ mode = "none"
  /\ pc \in {"select", "preflight", "running"} =>
       unread = {} /\ \A n \in DOMAIN configs : Complete(configs[n])

\* The providers that were built.
ZonesBuilt ==
  Started =>
    /\ Len(zones) \in Nat /\ DOMAIN zones = 1 .. Len(zones)
    /\ mode = "env" => \E zcs \in EnvConfigs : zones = NewMulti(zcs)

\* The queries that have been answered.
AnswersGood ==
  Started /\ Number("skipPreflight") = 0 =>
    /\ Len(answers) <= Len(zones)
    /\ pc = "running" => Len(answers) = Len(zones)
    /\ \A k \in DOMAIN answers : answers[k].ok /\ InTime(zones[k], answers[k])

StartupInv ==
  /\ TypeOK
  /\ InputsGiven
  /\ ConfigsRead
  /\ Stages
  /\ ZonesBuilt
  /\ NoSilentMix
  /\ AnswersGood

\* It holds when main begins: no variable has been read.
LEMMA StartupInit == Init => StartupInv
<1> SUFFICES ASSUME Init PROVE StartupInv
  OBVIOUS
<1> USE DEF Init
<1>1. TypeOK
  BY EmptySeq DEF TypeOK
<1>2. InputsGiven
  BY DEF InputsGiven
<1>3. ConfigsRead
  <2>1. Read = {} /\ DOMAIN configs = {}
    BY DEF Read
  <2>2. IsFiniteSet({})
    BY FS_EmptySet
  <2> QED BY <2>1, <2>2 DEF ConfigsRead
<1>4. Stages
  BY DEF Stages
<1>5. ZonesBuilt /\ NoSilentMix /\ AnswersGood
  BY DEF ZonesBuilt, NoSilentMix, AnswersGood, Started
<1> QED BY <1>1, <1>2, <1>3, <1>4, <1>5 DEF StartupInv

\* The settings and the map of configurations only depend on these variables.
LEMMA SameInputs ==
  ASSUME UNCHANGED inputs
  PROVE  /\ InputsGiven => InputsGiven'
         /\ Parsed => Parsed'
         /\ \A o : Number(o)' = Number(o) /\ Text(o)' = Text(o)
  BY DEF inputs, InputsGiven, Parsed, Number, Text

LEMMA SameConfigs ==
  ASSUME UNCHANGED <<inputs, unread, configs>>
  PROVE  (ConfigsRead => ConfigsRead') /\ EnvConfigs' = EnvConfigs
<1>1. configs' = configs /\ Read' = Read
  BY DEF inputs, Read
<1>2. EnvConfigs' = EnvConfigs
  BY <1>1 DEF EnvConfigs
<1>3. \A n, k : FieldRead(n, k)' <=> FieldRead(n, k)
  BY <1>1 DEF FieldRead
<1>4. ConfigsRead => ConfigsRead'
  BY <1>1, <1>3 DEF ConfigsRead
<1> QED BY <1>2, <1>4

\* A step within one stage, or to another one, keeps the types.
LEMMA SameTypes ==
  ASSUME TypeOK, UNCHANGED <<inputs, mode, left, zones, answers, durations>>,
         pc' \in {pc, "scan", "select", "running", "exit"}, status' \in 0 .. 2,
         unread' \subseteq unread
  PROVE  TypeOK'
<1>1. environ' = environ
  BY DEF inputs
<1>2. pc' \in {"parse", "scan", "select", "preflight", "running", "exit"} /\ unread' \subseteq environ
  BY DEF TypeOK
<1> QED BY <1>1, <1>2, Zenon DEF TypeOK

\* flag.Parse.
LEMMA ParseStep ==
  ASSUME StartupInv, Parse
  PROVE  StartupInv'
<1> USE DEF StartupInv, Parse, Exit
<1>1. InputsGiven' /\ ConfigsRead'
  BY SameInputs, SameConfigs
<1>2. TypeOK'
  <2>1. pc' \in {"scan", "exit"} /\ status' \in {status, 2}
    BY Zenon
  <2>2. status' \in 0 .. 2
    <3>1. 2 \in 0 .. 2
      BY SMT
    <3> QED BY <2>1, <3>1, Zenon DEF TypeOK
  <2> QED BY <2>1, <2>2, SameTypes
<1>3. Stages'
  BY SameInputs DEF Stages, Parsed
<1>4. ZonesBuilt' /\ NoSilentMix' /\ AnswersGood'
  BY DEF ZonesBuilt, NoSilentMix, AnswersGood, Started
<1> QED BY <1>1, <1>2, <1>3, <1>4

\* The names in the map are names that a variable can have.
LEMMA ConfigNames ==
  ASSUME InputsGiven, ConfigsRead, NEW n \in DOMAIN configs
  PROVE  n \in Seq(Word) /\ n # <<>> /\ n # <<"">>
<1>1. PICK w \in Read : Known(w.key) /\ n = NameOf(w.key)
  BY DEF ConfigsRead
<1>2. w.key \in Seq(STRING)
  BY <1>1, ZoneInputsAssumption DEF InputsGiven, Read
<1>3. w.key \in Seq(Word)
  BY <1>2, SeqMonotonic DEF Word
<1> QED BY <1>1, <1>3, ReadIsKey

\* A variable that sets nothing.
LEMMA ScanIgnoredStep ==
  ASSUME StartupInv, NEW v \in unread, ScanIgnored(v)
  PROVE  StartupInv'
<1> USE DEF StartupInv, ScanIgnored
<1>1. InputsGiven'
  BY SameInputs
<1>2. TypeOK'
  BY SameTypes DEF TypeOK
<1>3. Stages'
  BY SameInputs DEF Stages
<1>4. ZonesBuilt' /\ NoSilentMix' /\ AnswersGood'
  BY DEF ZonesBuilt, NoSilentMix, AnswersGood, Started
<1>5. ConfigsRead'
  <2>1. v \in environ /\ v \notin Read /\ Read' = Read \cup {v}
    BY DEF TypeOK, Read, inputs
  <2>2. DOMAIN configs = {NameOf(w.key) : w \in {u \in Read' : Known(u.key)}}
    BY <2>1 DEF ConfigsRead
  <2>3. ASSUME NEW n \in DOMAIN configs, NEW k \in 1 .. 9
        PROVE  v.key # n \o Suffix(k)
    <3>1. n \in Seq(Word) /\ n # <<>> /\ n # <<"">>
      BY ConfigNames
    <3>2. Known(n \o Suffix(k))
      BY <3>1, KeyIsRead
    <3> QED BY <3>2
  <2>4. \A n \in DOMAIN configs : \A k \in 1 .. 9 : FieldRead(n, k)'
    <3>1. configs' = configs /\ \A w \in Read' : w \in Read \/ w = v
      BY <2>1
    <3>2. \A n \in DOMAIN configs : \A k \in 1 .. 9 : FieldRead(n, k)
      BY DEF ConfigsRead
    <3>3. Read \subseteq Read'
      BY <2>1
    <3>4. ASSUME NEW n \in DOMAIN configs, NEW k \in 1 .. 9
          PROVE  FieldRead(n, k)'
      <4>1. FieldRead(n, k) /\ v.key # n \o Suffix(k)
        BY <2>3, <3>2
      <4> QED BY <3>1, <3>3, <4>1, Zenon DEF FieldRead
    <3> QED BY <3>4
  <2> QED BY <2>2, <2>4 DEF ConfigsRead
<1> QED BY <1>1, <1>2, <1>3, <1>4, <1>5

\* A variable that sets a field of a zone.
LEMMA ScanFieldStep ==
  ASSUME StartupInv, NEW v \in unread, ScanField(v)
  PROVE  StartupInv'
<1> USE DEF StartupInv
<1> DEFINE s == SetterOf(v.key)
           n == NameOf(v.key)
           val == IF s.parsed THEN Numeral[v.val] ELSE v.val
<1>1. /\ pc = "scan" /\ Known(v.key)
      /\ UNCHANGED <<inputs, mode, zones, left, answers, durations>>
  BY DEF ScanField
<1>2. InputsGiven'
  BY <1>1, SameInputs
<1>3. CASE s.parsed /\ v.val \notin DOMAIN Numeral
  <2>1. pc' = "exit" /\ status' = 1 /\ UNCHANGED <<unread, configs>>
    BY <1>3 DEF ScanField, Exit
  <2>2. ConfigsRead'
    BY <1>1, <2>1, SameConfigs
  <2>3. TypeOK'
    <3>1. 1 \in 0 .. 2
      BY SMT
    <3> QED BY <1>1, <2>1, <3>1, SameTypes
  <2>4. Stages' /\ ZonesBuilt' /\ NoSilentMix' /\ AnswersGood'
    BY <2>1 DEF Stages, ZonesBuilt, NoSilentMix, AnswersGood, Started
  <2> QED BY <1>2, <2>2, <2>3, <2>4
<1>4. CASE ~(s.parsed /\ v.val \notin DOMAIN Numeral)
  <2>1. /\ unread' = unread \ {v}
        /\ configs' = [m \in DOMAIN configs \cup {n} |->
             IF m = n THEN [ConfigOf(n) EXCEPT ![s.field] = val] ELSE configs[m]]
        /\ UNCHANGED <<pc, status>>
    BY <1>4 DEF ScanField
  <2>2. TypeOK'
    <3>1. status' \in 0 .. 2
      BY <2>1, Zenon DEF TypeOK
    <3> QED BY <1>1, <2>1, <3>1, SameTypes
  <2>3. Stages' /\ ZonesBuilt' /\ NoSilentMix' /\ AnswersGood'
    BY <1>1, <2>1, SameInputs
    DEF Stages, ZonesBuilt, NoSilentMix, AnswersGood, Started
  <2>4. v \in environ /\ v \notin Read /\ Read' = Read \cup {v}
    BY <1>1, <2>1 DEF TypeOK, Read, inputs
  <2>5. v.key \in Seq(Word)
    <3>1. v.key \in Seq(STRING)
      BY <2>4, ZoneInputsAssumption DEF InputsGiven
    <3> QED BY <3>1, SeqMonotonic DEF Word
  <2>6. PICK j \in 1 .. 9 : /\ s = zoneFieldSetters[j]
                            /\ v.key = n \o Suffix(j)
                            /\ n \in Seq(Word) /\ n # <<>> /\ n # <<"">>
    BY <1>1, <2>5, ReadIsKey
  <2> HIDE DEF s, n
  <2>7. DOMAIN configs' = DOMAIN configs \cup {n}
    BY <2>1
  <2>8. IsFiniteSet(DOMAIN configs')
    BY <2>7, FS_AddElement DEF ConfigsRead
  <2>9. DOMAIN configs' = {NameOf(w.key) : w \in {u \in Read' : Known(u.key)}}
    BY <1>1, <2>4, <2>7 DEF ConfigsRead, n
  <2>10. IsConfig(ConfigOf(n)) /\ s.field \in Field
    BY <2>6, ZeroIsConfig, Setters DEF ConfigOf, ConfigsRead, Field
  <2>11. s.field = "Timeout" => val \in Int
    <3>1. s.field = "Timeout" => s.parsed
      BY <2>6, Setters
    <3> QED BY <1>4, <3>1, InputsAssumption
  <2> HIDE DEF val
  <2> DEFINE zc == [ConfigOf(n) EXCEPT ![s.field] = val]
  <2>12. /\ DOMAIN zc = Field /\ zc = [f \in Field |-> zc[f]]
         /\ zc[s.field] = val
         /\ \A f \in Field : f # s.field => zc[f] = ConfigOf(n)[f]
    BY <2>10 DEF IsConfig
  <2>13. IsConfig(zc)
    <3>1. "Timeout" \in Field
      BY Fieldnames
    <3> HIDE DEF zc
    <3> QED BY <2>10, <2>11, <2>12, <3>1 DEF IsConfig
  <2>14. configs'[n] = zc /\ \A m \in DOMAIN configs : m # n => configs'[m] = configs[m]
    BY <2>1
  <2> HIDE DEF zc
  <2>15. \A m \in DOMAIN configs' : IsConfig(configs'[m])
    BY <2>7, <2>13, <2>14 DEF ConfigsRead
  <2>16. ASSUME NEW m \in DOMAIN configs', NEW k \in 1 .. 9
         PROVE  FieldRead(m, k)'
    <3> DEFINE f == zoneFieldSetters[k].field
    <3>1. k \in 1 .. 9 /\ f \in Field
      BY Setters, Zenon DEF Field
    <3>2. m \in Seq(Word) /\ m # <<>> /\ m # <<"">>
      BY <2>6, <2>7, ConfigNames
    <3>3. /\ Known(m \o Suffix(k)) /\ NameOf(m \o Suffix(k)) = m
          /\ SetterOf(m \o Suffix(k)) = zoneFieldSetters[k]
      BY <3>1, <3>2, KeyIsRead
    <3> HIDE DEF f
    <3>4. CASE m = n /\ k = j
      <4>1. v.key = m \o Suffix(k) /\ configs'[m][f] = Value(k, v)
        BY <2>6, <2>12, <2>14, <3>1, <3>4 DEF val, f, Value
      <4>2. \A w \in Read' : w.key = v.key => w = v
        BY <2>4, ZoneInputsAssumption DEF InputsGiven, Read
      <4> QED BY <2>4, <4>1, <4>2, Zenon DEF FieldRead, f
    <3>5. CASE m # n \/ k # j
      <4>1. v.key # m \o Suffix(k)
        <5>1. zoneFieldSetters[j] = zoneFieldSetters[k] => j = k
          BY <3>1, Setters
        <5> QED BY <2>6, <3>3, <3>5, <5>1 DEF n, s
      <4>2. CASE m \in DOMAIN configs
        <5>1. FieldRead(m, k)
          BY <4>2 DEF ConfigsRead
        <5>2. configs'[m][f] = configs[m][f]
          <6>1. CASE m # n
            BY <6>1, <4>2, <2>14
          <6>2. CASE m = n
            <7>1. f # s.field
              BY <6>2, <3>5, <3>1, <2>6, Setters DEF f
            <7>2. configs'[m][f] = ConfigOf(n)[f]
              BY <7>1, <6>2, <2>12, <2>14, <3>1
            <7> QED BY <7>2, <6>2, <4>2 DEF ConfigOf
          <6> QED BY <6>1, <6>2
        <5> QED BY <2>4, <4>1, <5>1, <5>2, Zenon DEF FieldRead, f
      <4>3. CASE m \notin DOMAIN configs
        <5>1. m = n
          BY <4>3, <2>7
        <5>2. f # s.field
          BY <5>1, <3>5, <3>1, <2>6, Setters DEF f
        <5>3. configs'[m][f] = ZeroConfig[f]
          BY <4>3, <5>1, <5>2, <2>12, <2>14, <3>1 DEF ConfigOf
        <5>4. \A w \in Read : w.key # m \o Suffix(k)
          BY <3>3, <4>3 DEF ConfigsRead
        <5> QED BY <2>4, <4>1, <5>3, <5>4, Zenon DEF FieldRead, f
      <4> QED BY <4>2, <4>3
    <3> QED BY <3>4, <3>5
  <2>17. ConfigsRead'
    BY <2>8, <2>9, <2>15, <2>16 DEF ConfigsRead
  <2> QED BY <1>2, <2>2, <2>3, <2>17
<1> QED BY <1>3, <1>4

\* A step that ends the program.
LEMMA ExitStep ==
  ASSUME StartupInv, NEW c \in 0 .. 2, Exit(c),
         UNCHANGED <<inputs, unread, configs, mode, zones, left, durations>>,
         answers' \in Seq(Answer)
  PROVE  StartupInv'
<1> USE DEF StartupInv, Exit
<1>1. InputsGiven' /\ ConfigsRead'
  BY SameInputs, SameConfigs
<1>2. TypeOK'
  BY Zenon DEF TypeOK, inputs
<1>3. Stages' /\ ZonesBuilt' /\ NoSilentMix' /\ AnswersGood'
  BY DEF Stages, ZonesBuilt, NoSilentMix, AnswersGood, Started
<1> QED BY <1>1, <1>2, <1>3

\* All variables are read.
LEMMA ScanReturnsStep ==
  ASSUME StartupInv, ScanReturns
  PROVE  StartupInv'
<1> USE DEF StartupInv
<1>1. CASE \A n \in DOMAIN configs : Complete(configs[n])
  <2>1. /\ pc = "scan" /\ pc' = "select" /\ unread = {} /\ UNCHANGED status
        /\ UNCHANGED <<inputs, unread, configs, mode, zones, left, answers, durations>>
    BY <1>1 DEF ScanReturns
  <2>2. InputsGiven' /\ ConfigsRead'
    BY <2>1, SameInputs, SameConfigs
  <2>3. TypeOK'
    <3>1. status' \in 0 .. 2
      BY <2>1, Zenon DEF TypeOK
    <3> QED BY <2>1, <3>1, SameTypes
  <2>4. Stages'
    BY <1>1, <2>1, SameInputs DEF Stages
  <2>5. ZonesBuilt' /\ NoSilentMix' /\ AnswersGood'
    BY <2>1 DEF ZonesBuilt, NoSilentMix, AnswersGood, Started
  <2> QED BY <2>2, <2>3, <2>4, <2>5
<1>2. CASE ~\A n \in DOMAIN configs : Complete(configs[n])
  <2>1. Exit(1) /\ UNCHANGED <<inputs, unread, configs, mode, zones, left, answers, durations>>
    BY <1>2 DEF ScanReturns
  <2>2. answers' \in Seq(Answer)
    BY <2>1, Zenon DEF TypeOK
  <2>3. 1 \in 0 .. 2
    BY SMT
  <2> QED BY <2>1, <2>2, <2>3, ExitStep
<1> QED BY <1>1, <1>2

\* The length of a sequence is determined by its domain.
LEMMA IntervalLength ==
  ASSUME NEW i \in Nat, NEW j \in Nat, 1 .. i = 1 .. j
  PROVE  i = j
<1>1. ASSUME i < j PROVE FALSE
  <2>1. j \in 1 .. j /\ j \notin 1 .. i
    BY <1>1
  <2> QED BY <2>1, Zenon
<1>2. ASSUME j < i PROVE FALSE
  <2>1. i \in 1 .. i /\ i \notin 1 .. j
    BY <1>2
  <2> QED BY <2>1, Zenon
<1> QED BY <1>1, <1>2

\* The empty sequence is the shortest.
LEMMA EmptyShortest == DOMAIN <<>> = {} /\ \A c \in Nat : Len(<<>>) <= c
  OBVIOUS

\* The construction of the providers, from a list of configurations that New
\* makes usable.
LEMMA BuildStep ==
  ASSUME StartupInv, pc = "select",
         NEW m \in {"single", "env", "file"}, NEW zcs, Build(m, zcs),
         UNCHANGED <<inputs, unread, configs, answers, durations>>,
         NEW c \in Nat, DOMAIN zcs = 1 .. c,
         \A k \in DOMAIN zcs : Usable(New(zcs[k])),
         m = "env" => zcs \in EnvConfigs,
         m \in {"env", "file"} => Text("rfc2136Host") = "" /\ Text("rfc2136Zone") = "",
         m \in {"single", "file"} => DOMAIN configs = {},
         m \in {"single", "env"} => Text("rfc2136ConfigFile") = ""
  PROVE  StartupInv'
<1> USE DEF StartupInv
<1>1. /\ mode' = m /\ zones' = NewMulti(zcs) /\ pc' = "preflight"
      /\ left' = Number("rfc2136Timeout") /\ UNCHANGED status
  BY DEF Build
<1>2. InputsGiven' /\ ConfigsRead' /\ EnvConfigs' = EnvConfigs
  BY SameInputs, SameConfigs
<1>3. Parsed /\ answers = <<>> /\ unread = {} /\ \A n \in DOMAIN configs : Complete(configs[n])
  BY DEF Stages
<1>4. Stages'
  BY <1>1, <1>3, SameInputs DEF Stages
<1>5. Len(zones') = c /\ DOMAIN zones' = 1 .. c /\ \A k \in 1 .. c : zones'[k] = New(zcs[k])
  <2> DEFINE S == {New(zcs[k]) : k \in 1 .. c}
  <2>1. zones' = [k \in 1 .. c |-> New(zcs[k])]
    BY <1>1 DEF NewMulti
  <2>2. zones' \in [1 .. c -> S]
    BY <2>1
  <2>3. zones' \in Seq(S)
    BY <2>2, SeqDef
  <2>4. DOMAIN zones' = 1 .. Len(zones') /\ Len(zones') \in Nat
    BY <2>3, LenProperties
  <2>5. DOMAIN zones' = 1 .. c
    BY <2>1
  <2> QED BY <2>1, <2>4, <2>5, IntervalLength, Zenon
<1>6. TypeOK'
  <2>1. "rfc2136Timeout" \in NumberOption
    BY DEF NumberOption, Default
  <2>2. left' \in Int
    BY <1>1, <1>3, <2>1, NumberIsInt
  <2>3. \A k \in DOMAIN zones' : Usable(zones'[k])
    BY <1>5
  <2>4. environ' = environ /\ answers' = answers /\ unread' = unread /\ status' = status
    BY <1>1 DEF inputs
  <2> QED BY <1>1, <2>2, <2>3, <2>4, Zenon DEF TypeOK, Usable
<1>7. ZonesBuilt'
  BY <1>1, <1>2, <1>5 DEF ZonesBuilt
<1>8. NoSilentMix'
  <2>1. \A o : Text(o)' = Text(o)
    BY SameInputs
  <2>2. DOMAIN configs = {} => ~\E v \in environ : Known(v.key)
    BY <1>3 DEF ConfigsRead, Read
  <2>3. environ' = environ
    BY DEF inputs
  <2> QED BY <1>1, <2>1, <2>2, <2>3 DEF NoSilentMix
<1>9. AnswersGood'
  <2>1. answers' = <<>>
    BY <1>3
  <2>2. Len(answers') <= Len(zones') /\ DOMAIN answers' = {}
    BY <1>5, <2>1, EmptyShortest, Zenon
  <2> QED BY <1>1, <2>1, <2>2 DEF AnswersGood
<1> QED BY <1>2, <1>4, <1>6, <1>7, <1>8, <1>9

\* A configuration that is refused.
LEMMA RejectStep ==
  ASSUME StartupInv, Reject, UNCHANGED <<inputs, unread, configs, answers, durations>>
  PROVE  StartupInv'
<1>1. 1 \in 0 .. 2
  BY SMT
<1>2. answers' \in Seq(Answer)
  BY Zenon DEF StartupInv, TypeOK
<1> QED BY <1>1, <1>2, ExitStep DEF Reject

\* The zones of the file.
LEMMA SelectFileStep ==
  ASSUME StartupInv, SelectFile
  PROVE  StartupInv'
<1> DEFINE bad == \/ singleZoneFlagsSet
                  \/ envModeActive
                  \/ ~yaml.parses
                  \/ \E k \in DOMAIN yaml.zones : ~ValidEntry(yaml.zones[k])
           zcs == [k \in DOMAIN yaml.zones |-> FromEntry(yaml.zones[k])]
<1>1. pc = "select" /\ UNCHANGED <<inputs, unread, configs, answers, durations>>
  BY DEF SelectFile
<1>2. CASE bad
  BY <1>1, <1>2, RejectStep DEF SelectFile
<1>3. CASE ~bad
  <2>1. Build("file", zcs)
    BY <1>3 DEF SelectFile
  <2>2. yaml.zones \in Seq(YamlEntry)
    BY YamlInputsAssumption DEF StartupInv, InputsGiven
  <2>3. Len(yaml.zones) \in Nat /\ DOMAIN zcs = 1 .. Len(yaml.zones)
    BY <2>2, LenProperties
  <2>4. \A k \in DOMAIN zcs : Usable(New(zcs[k]))
    <3>1. SUFFICES ASSUME NEW k \in DOMAIN yaml.zones PROVE Usable(New(FromEntry(yaml.zones[k])))
      OBVIOUS
    <3>2. yaml.zones[k] \in YamlEntry
      BY <2>2, <2>3, LenProperties, ElementOfSeq
    <3>3. ValidEntry(yaml.zones[k])
      BY <1>3
    <3> QED BY <3>2, <3>3, EntryIsUsable
  <2>5. Text("rfc2136Host") = "" /\ Text("rfc2136Zone") = "" /\ DOMAIN configs = {}
    BY <1>3 DEF singleZoneFlagsSet, envModeActive
  <2> HIDE DEF zcs, bad
  <2> QED BY <1>1, <2>1, <2>3, <2>4, <2>5, BuildStep
<1> QED BY <1>2, <1>3

\* The zones of the environment.
LEMMA SelectEnvStep ==
  ASSUME StartupInv, SelectEnv
  PROVE  StartupInv'
<1>1. /\ pc = "select" /\ UNCHANGED <<inputs, unread, configs, answers, durations>>
      /\ Text("rfc2136ConfigFile") = ""
  BY DEF SelectEnv
<1>2. CASE singleZoneFlagsSet
  BY <1>1, <1>2, RejectStep DEF SelectEnv
<1>3. CASE ~singleZoneFlagsSet
  <2>1. PICK zcs \in EnvConfigs : Build("env", zcs)
    BY <1>3 DEF SelectEnv
  <2>2. PICK s \in Sorted(DOMAIN configs) : zcs = [k \in DOMAIN s |-> Resolved(configs[s[k]])]
    BY DEF EnvConfigs
  <2> DEFINE c == Cardinality(DOMAIN configs)
  <2>3. c \in Nat
    BY FS_CardinalityType DEF StartupInv, ConfigsRead
  <2>4. DOMAIN zcs = 1 .. c /\ \A k \in DOMAIN zcs : s[k] \in DOMAIN configs
    BY <2>2 DEF Sorted
  <2>5. \A k \in DOMAIN zcs : Usable(New(zcs[k]))
    <3>1. SUFFICES ASSUME NEW k \in DOMAIN zcs PROVE Usable(New(Resolved(configs[s[k]])))
      BY <2>2
    <3>2. IsConfig(configs[s[k]]) /\ Complete(configs[s[k]])
      BY <1>1, <2>4 DEF StartupInv, ConfigsRead, Stages
    <3> QED BY <3>2, NewIsUsable
  <2>6. Text("rfc2136Host") = "" /\ Text("rfc2136Zone") = ""
    BY <1>3 DEF singleZoneFlagsSet
  <2> HIDE DEF c
  <2> QED BY <1>1, <2>1, <2>3, <2>4, <2>5, <2>6, BuildStep
<1> QED BY <1>2, <1>3

\* The one zone of the flags.
LEMMA SelectSingleStep ==
  ASSUME StartupInv, SelectSingle
  PROVE  StartupInv'
<1> DEFINE good == /\ Complete(SingleConfig)
                   /\ SingleConfig.TSIGSecret = "" \/ SingleConfig.TSIGSecretFile = ""
           zcs == <<Resolved(SingleConfig)>>
<1>1. /\ pc = "select" /\ UNCHANGED <<inputs, unread, configs, answers, durations>>
      /\ Text("rfc2136ConfigFile") = "" /\ DOMAIN configs = {}
  BY DEF SelectSingle, envModeActive
<1>2. CASE ~good
  BY <1>1, <1>2, RejectStep DEF SelectSingle
<1>3. CASE good
  <2>1. Build("single", zcs)
    BY <1>3 DEF SelectSingle
  <2>2. IsConfig(SingleConfig)
    <3>1. "rfc2136Timeout" \in NumberOption /\ Parsed
      BY <1>1 DEF NumberOption, Default, StartupInv, Stages
    <3>2. Number("rfc2136Timeout") \in Int
      BY <3>1, NumberIsInt
    <3>3. SingleConfig.Timeout = Number("rfc2136Timeout")
      BY DEF SingleConfig
    <3>4. DOMAIN SingleConfig = Field
      BY Fieldnames DEF SingleConfig
    <3>5. SingleConfig = [f \in DOMAIN SingleConfig |-> SingleConfig[f]]
      BY DEF SingleConfig
    <3> QED BY <3>2, <3>3, <3>4, <3>5, Zenon DEF IsConfig
  <2>3. Usable(New(Resolved(SingleConfig)))
    BY <1>3, <2>2, NewIsUsable
  <2>4. 1 \in Nat /\ DOMAIN zcs = 1 .. 1 /\ \A k \in DOMAIN zcs : zcs[k] = Resolved(SingleConfig)
    OBVIOUS
  <2>5. \A k \in DOMAIN zcs : Usable(New(zcs[k]))
    BY <2>3, <2>4
  <2> HIDE DEF zcs, good
  <2> QED BY <1>1, <2>1, <2>4, <2>5, BuildStep
<1> QED BY <1>2, <1>3

\* The Docker client cannot be made.
LEMMA DockerFailsStep ==
  ASSUME StartupInv, DockerFails
  PROVE  StartupInv'
<1>1. 1 \in 0 .. 2
  BY SMT
<1>2. answers' \in Seq(Answer)
  BY Zenon DEF StartupInv, TypeOK, DockerFails
<1> QED BY <1>1, <1>2, ExitStep DEF DockerFails

\* The sequence of answers grows by one.
LEMMA OneMore ==
  ASSUME NEW S, NEW q \in Seq(S), NEW a \in S, NEW l \in Nat, Len(q) < l,
         NEW r, r = Append(q, a)
  PROVE  /\ r \in Seq(S)
         /\ Len(r) <= l
         /\ \A k \in DOMAIN r : (k \in DOMAIN q /\ r[k] = q[k]) \/ (k = Len(q) + 1 /\ r[k] = a)
  OBVIOUS

\* One preflight query.
LEMMA QueryStep ==
  ASSUME StartupInv, Query
  PROVE  StartupInv'
<1> USE DEF StartupInv
<1>1. PICK a \in Answer :
        /\ answers' = Append(answers, a)
        /\ left' = left - a.delay
        /\ IF InTime(zones[Len(answers) + 1], a) /\ a.delay <= left /\ a.ok
             THEN UNCHANGED <<pc, status>>
             ELSE Exit(1)
  BY DEF Query
<1>2. /\ pc = "preflight" /\ Len(answers) < Len(zones) /\ Number("skipPreflight") = 0
      /\ UNCHANGED <<inputs, unread, configs, mode, zones, durations>>
  BY DEF Query
<1>3. answers \in Seq(Answer) /\ Len(zones) \in Nat
  BY <1>2, Zenon DEF TypeOK, ZonesBuilt, Started
<1>4. /\ answers' \in Seq(Answer)
      /\ Len(answers') <= Len(zones)
      /\ \A k \in DOMAIN answers' : \/ k \in DOMAIN answers /\ answers'[k] = answers[k]
                                    \/ k = Len(answers) + 1 /\ answers'[k] = a
  <2>1. answers \in Seq(Answer) /\ Len(zones) \in Nat /\ Len(answers) < Len(zones)
    BY <1>2, <1>3
  <2>2. answers' = Append(answers, a)
    BY <1>1
  <2> QED BY <2>1, <2>2, OneMore
<1>5. InputsGiven' /\ ConfigsRead' /\ EnvConfigs' = EnvConfigs
  BY <1>2, SameInputs, SameConfigs
<1>6. left' \in Int
  <2>1. a.delay \in Int
    BY DEF Answer
  <2>2. left \in Int
    BY Zenon DEF TypeOK
  <2> QED BY <1>1, <2>1, <2>2
<1>7. \/ /\ UNCHANGED <<pc, status>> /\ a.ok
         /\ InTime(zones[Len(answers) + 1], a)
      \/ pc' = "exit" /\ status' = 1
  BY <1>1, Zenon DEF Exit
<1>8. TypeOK'
  <2>1. pc' \in {"preflight", "exit"} /\ status' \in {status, 1}
    BY <1>2, <1>7
  <2>2. 1 \in 0 .. 2
    BY SMT
  <2>3. environ' = environ
    BY <1>2 DEF inputs
  <2> QED BY <1>2, <1>4, <1>6, <2>1, <2>2, <2>3, Zenon DEF TypeOK
<1>9. CASE pc' = "exit" /\ status' = 1
  BY <1>5, <1>8, <1>9
  DEF Stages, ZonesBuilt, NoSilentMix, AnswersGood, Started
<1>10. CASE UNCHANGED <<pc, status>> /\ a.ok /\ InTime(zones[Len(answers) + 1], a)
  <2>1. Stages'
    BY <1>2, <1>10, SameInputs DEF Stages
  <2>2. ZonesBuilt'
    BY <1>2, <1>5, <1>10 DEF ZonesBuilt, Started
  <2>3. NoSilentMix'
    <3>1. environ' = environ /\ \A o : Text(o)' = Text(o)
      BY <1>2, SameInputs DEF inputs
    <3> QED BY <1>2, <1>10, <3>1, Zenon DEF NoSilentMix, Started
  <2>4. AnswersGood'
    <3>1. \A k \in DOMAIN answers' : answers'[k].ok /\ InTime(zones[k], answers'[k])
      BY <1>2, <1>4, <1>10 DEF AnswersGood, Started
    <3>2. zones' = zones /\ pc' # "running"
      BY <1>2, <1>10
    <3> QED BY <1>4, <3>1, <3>2, Zenon DEF AnswersGood, InTime
  <2> QED BY <1>5, <1>8, <2>1, <2>2, <2>3, <2>4
<1> QED BY <1>7, <1>9, <1>10

\* The defaults of the controller make every duration positive.
LEMMA DefaultsPositive ==
  ASSUME Parsed,
         NEW o \in {"interval", "debounce", "backoffBase", "backoffMax"}
  PROVE  applyDefaults(Number(o), Default[o]) > 0
<1>1. o \in NumberOption /\ Default[o] \in {60, 5, 300}
  BY DEF NumberOption, Default
<1>2. Number(o) \in Int
  BY <1>1, NumberIsInt
<1>3. \A d \in Int : \A e \in {60, 5, 300} : applyDefaults(d, e) > 0
  BY DEF applyDefaults
<1> QED BY <1>1, <1>2, <1>3

\* The controller starts.
LEMMA StartStep ==
  ASSUME StartupInv, Start
  PROVE  StartupInv'
<1> USE DEF StartupInv
<1>1. /\ pc = "preflight" /\ pc' = "running"
      /\ Number("skipPreflight") # 0 \/ Preflighted
      /\ UNCHANGED <<inputs, status, unread, configs, mode, zones, left, answers>>
      /\ durations' = [o \in {"interval", "debounce", "backoffBase", "backoffMax"} |->
                         applyDefaults(Number(o), Default[o])]
  BY DEF Start
<1>2. InputsGiven' /\ ConfigsRead' /\ EnvConfigs' = EnvConfigs
  BY <1>1, SameInputs, SameConfigs
<1>3. TypeOK'
  <2>1. Parsed
    BY <1>1 DEF Stages
  <2>2. \A o \in DOMAIN durations' : durations'[o] > 0
    BY <1>1, <2>1, DefaultsPositive
  <2>3. environ' = environ
    BY <1>1 DEF inputs
  <2> QED BY <1>1, <2>2, <2>3, Zenon DEF TypeOK
<1>4. Stages'
  BY <1>1, SameInputs DEF Stages
<1>5. ZonesBuilt'
  BY <1>1, <1>2 DEF ZonesBuilt, Started
<1>6. NoSilentMix'
  <2>1. environ' = environ /\ \A o : Text(o)' = Text(o)
    BY <1>1, SameInputs DEF inputs
  <2> QED BY <1>1, <2>1, Zenon DEF NoSilentMix, Started
<1>7. AnswersGood'
  <2>1. \A o : Number(o)' = Number(o)
    BY <1>1, SameInputs
  <2> QED BY <1>1, <2>1, Zenon DEF AnswersGood, Preflighted, Started, InTime
<1> QED BY <1>2, <1>3, <1>4, <1>5, <1>6, <1>7

\* Every step keeps the invariant.
LEMMA StartupNext == StartupInv /\ [Next]_vars => StartupInv'
<1> SUFFICES ASSUME StartupInv, [Next]_vars PROVE StartupInv'
  OBVIOUS
<1>1. CASE UNCHANGED vars
  <2>1. /\ UNCHANGED <<inputs, pc, status, unread, configs, mode, zones, left, answers, durations>>
    BY <1>1 DEF vars
  <2>2. InputsGiven' /\ ConfigsRead' /\ EnvConfigs' = EnvConfigs
    BY <2>1, SameInputs, SameConfigs DEF StartupInv
  <2>3. TypeOK'
    <3>1. status' \in 0 .. 2
      BY <2>1, Zenon DEF TypeOK, StartupInv
    <3> QED BY <2>1, <3>1, SameTypes DEF StartupInv
  <2>4. environ' = environ /\ \A o : Number(o)' = Number(o) /\ Text(o)' = Text(o)
    BY <2>1, SameInputs DEF inputs
  <2>5. Stages' /\ ZonesBuilt'
    BY <2>1, <2>2, SameInputs DEF StartupInv, Stages, ZonesBuilt, Started
  <2>6. NoSilentMix' /\ AnswersGood'
    BY <2>1, <2>4, Zenon DEF StartupInv, NoSilentMix, AnswersGood, Started, InTime
  <2> QED BY <2>2, <2>3, <2>5, <2>6 DEF StartupInv
<1>2. CASE Next
  BY <1>2, ParseStep, ScanIgnoredStep, ScanFieldStep, ScanReturnsStep, SelectFileStep,
     SelectEnvStep, SelectSingleStep, DockerFailsStep, QueryStep, StartStep DEF Next
<1> QED BY <1>1, <1>2

\* Hence it holds for every command line, environment and file.
LEMMA StartupInvariant == Spec => []StartupInv
  BY StartupInit, StartupNext, PTL DEF Spec

-----------------------------------------------------------------------------
(* The theorems. *)

\* For all inputs the types hold: the providers' configurations are complete,
\* with their secrets resolved and a timeout that does not expire at once.
THEOREM StartupTypes == Spec => []TypeOK
<1>1. StartupInv => TypeOK
  BY DEF StartupInv
<1> QED BY <1>1, StartupInvariant, PTL

\* Mode exclusivity, for all inputs: main never starts in one mode while zones
\* or hosts were given in another.
THEOREM StartupNoSilentMix == Spec => []NoSilentMix
<1>1. StartupInv => NoSilentMix
  BY DEF StartupInv
<1> QED BY <1>1, StartupInvariant, PTL

\* For any number of zones, a daemon that runs after preflight has had a good
\* answer in time from each of them.
THEOREM StartupVerified == Spec => []Verified
<1>1. ASSUME StartupInv PROVE Verified
  <2> SUFFICES ASSUME pc = "running", Number("skipPreflight") = 0, NEW k \in DOMAIN zones
               PROVE  k \in DOMAIN answers /\ answers[k].ok /\ InTime(zones[k], answers[k])
    BY DEF Verified
  <2>1. /\ Len(answers) = Len(zones) /\ DOMAIN zones = 1 .. Len(zones)
        /\ \A j \in DOMAIN answers : answers[j].ok /\ InTime(zones[j], answers[j])
    BY <1>1, Zenon DEF StartupInv, AnswersGood, ZonesBuilt, Started
  <2>2. answers \in Seq(Answer)
    BY <1>1, Zenon DEF StartupInv, TypeOK
  <2>3. DOMAIN answers = 1 .. Len(answers)
    BY <2>2, LenProperties
  <2> QED BY <2>1, <2>3, Zenon
<1> QED BY <1>1, StartupInvariant, PTL

\* Once all variables are read, a field of the map is the value of its variable.
LEMMA GivenIsRead ==
  ASSUME InputsGiven, unread = {}, NEW n, NEW k \in 1 .. 9, FieldRead(n, k)
  PROVE  configs[n][zoneFieldSetters[k].field] =
           IF zoneFieldSetters[k].parsed THEN GivenNumber(n, Suffix(k)) ELSE Given(n, Suffix(k))
<1> DEFINE set == Setting(n, Suffix(k))
<1>1. Read = environ
  BY DEF Read
<1>2. CASE set = {}
  <2>1. configs[n][zoneFieldSetters[k].field] = ZeroConfig[zoneFieldSetters[k].field]
    BY <1>1, <1>2 DEF FieldRead, Setting
  <2>2. ZeroConfig[zoneFieldSetters[k].field] = IF zoneFieldSetters[k].parsed THEN 0 ELSE ""
    BY UnsetFields
  <2> QED BY <1>2, <2>1, <2>2, Zenon DEF Given, GivenNumber
<1>3. CASE set # {}
  <2>1. PICK v \in environ : v.key = n \o Suffix(k)
    BY <1>3 DEF Setting
  <2>2. \A w \in set : w = v
    BY <2>1, ZoneInputsAssumption DEF InputsGiven, Setting
  <2>3. (CHOOSE w \in set : TRUE) = v
    BY <1>3, <2>2
  <2>4. Given(n, Suffix(k)) = v.val /\ GivenNumber(n, Suffix(k)) = Numeral[v.val]
    BY <1>3, <2>3, Zenon DEF Given, GivenNumber
  <2> QED BY <1>1, <2>1, <2>4, Zenon DEF FieldRead, Value
<1> QED BY <1>2, <1>3

\* The map has an entry for every zone that a variable names, and for no other.
LEMMA NamedZones ==
  ASSUME StartupInv, unread = {}
  PROVE  DOMAIN configs =
           {n \in DOMAIN Rank : \E v \in environ : \E f \in Fields : v.key = n \o f}
<1>1. Read = environ
  BY DEF Read
<1>2. Fields = {Suffix(k) : k \in 1 .. 9}
  BY Setters DEF Fields, Suffix
<1>3. \A v \in environ : v.key \in Seq(Word)
  <2>1. \A v \in environ : v.key \in Seq(STRING)
    BY ZoneInputsAssumption DEF StartupInv, InputsGiven
  <2> QED BY <2>1, SeqMonotonic DEF Word
<1>4. ASSUME NEW n \in DOMAIN configs
      PROVE  n \in DOMAIN Rank /\ \E v \in environ : \E f \in Fields : v.key = n \o f
  <2>1. PICK v \in environ : Known(v.key) /\ n = NameOf(v.key)
    BY <1>1 DEF StartupInv, ConfigsRead
  <2>2. n \in DOMAIN Rank
    BY <2>1, ZoneInputsAssumption DEF StartupInv, InputsGiven
  <2>3. \E k \in 1 .. 9 : v.key = n \o Suffix(k)
    BY <1>3, <2>1, ReadIsKey
  <2> QED BY <1>2, <2>2, <2>3
<1>5. ASSUME NEW n \in DOMAIN Rank, NEW v \in environ, NEW k \in 1 .. 9, v.key = n \o Suffix(k)
      PROVE  n \in DOMAIN configs
  <2>1. n \in Seq(STRING) /\ n # <<>> /\ n # <<"">>
    BY NamesAssumption, Zenon
  <2>2. n \in Seq(Word)
    BY <2>1, SeqMonotonic DEF Word
  <2>3. Known(v.key) /\ NameOf(v.key) = n
    BY <2>1, <2>2, <1>5, KeyIsRead, Zenon
  <2> QED BY <1>1, <2>3 DEF StartupInv, ConfigsRead
<1> QED BY <1>2, <1>4, <1>5

\* The entry of a zone, with its secret resolved, is what its variables ask for.
LEMMA ResolvedAsGiven ==
  ASSUME StartupInv, unread = {}, NEW n \in DOMAIN configs
  PROVE  Resolved(configs[n]) = AsGiven(n)
<1> DEFINE zc == configs[n]
           g(k) == IF zoneFieldSetters[k].parsed THEN GivenNumber(n, Suffix(k))
                   ELSE Given(n, Suffix(k))
<1>1. IsConfig(zc) /\ \A k \in 1 .. 9 : zc[zoneFieldSetters[k].field] = g(k)
  BY GivenIsRead DEF StartupInv, ConfigsRead
<1> HIDE DEF zc
<1>2. /\ zc.TSIGSecretFile = Given(n, <<"TSIG", "SECRET", "FILE">>)
      /\ zc.TSIGSecret = Given(n, <<"TSIG", "SECRET">>)
      /\ zc.TSIGKey = Given(n, <<"TSIG", "KEY">>)
      /\ zc.TSIGAlg = Given(n, <<"TSIG", "ALG">>)
      /\ zc.MinTTL = GivenNumber(n, <<"MIN", "TTL">>)
      /\ zc.Timeout = GivenNumber(n, <<"TIMEOUT">>)
      /\ zc.Host = Given(n, <<"HOST">>)
      /\ zc.Port = GivenNumber(n, <<"PORT">>)
      /\ zc.Zone = Given(n, <<"ZONE">>)
  <2>1. \A k \in {1, 2, 3, 4, 7, 9} : k \in 1 .. 9 /\ g(k) = Given(n, Suffix(k))
    BY SetterTable
  <2>2. \A k \in {5, 6, 8} : k \in 1 .. 9 /\ g(k) = GivenNumber(n, Suffix(k))
    BY SetterTable
  <2> HIDE DEF g
  <2>3. /\ \A k \in {1, 2, 3, 4, 7, 9} : zc[zoneFieldSetters[k].field] = Given(n, Suffix(k))
        /\ \A k \in {5, 6, 8} : zc[zoneFieldSetters[k].field] = GivenNumber(n, Suffix(k))
    BY <1>1, <2>1, <2>2, Zenon
  <2> QED BY <2>3, SetterTable, Zenon
<1> DEFINE r == Resolved(zc)
           a == AsGiven(n)
<1>3. /\ DOMAIN r = Field /\ r = [f \in Field |-> r[f]]
      /\ r.Host = zc.Host /\ r.Port = zc.Port /\ r.Zone = zc.Zone /\ r.TSIGKey = zc.TSIGKey
      /\ r.TSIGAlg = zc.TSIGAlg /\ r.MinTTL = zc.MinTTL /\ r.Timeout = zc.Timeout
      /\ r.TSIGSecretFile = "" /\ r.TSIGSecret = Secret(zc)
  BY <1>1, Fieldnames DEF IsConfig, Resolved
<1>4. /\ DOMAIN a = Field /\ a = [f \in Field |-> a[f]]
      /\ a.Host = zc.Host /\ a.Port = zc.Port /\ a.Zone = zc.Zone /\ a.TSIGKey = zc.TSIGKey
      /\ a.TSIGAlg = zc.TSIGAlg /\ a.MinTTL = zc.MinTTL /\ a.Timeout = zc.Timeout
      /\ a.TSIGSecretFile = ""
      /\ a.TSIGSecret = IF zc.TSIGSecretFile # "" THEN Files[zc.TSIGSecretFile]
                        ELSE zc.TSIGSecret
  BY <1>2, Fieldnames DEF AsGiven
<1> HIDE DEF r, a
<1>5. r.TSIGSecret = a.TSIGSecret
  BY <1>3, <1>4, Zenon DEF Secret
<1>6. \A f \in Field : r[f] = a[f]
  BY <1>3, <1>4, <1>5, Fieldnames, Zenon
<1> QED BY <1>3, <1>4, <1>6 DEF r, a, zc

\* For every set of zone variables, in whatever order they come and whatever
\* words their names are made of, each zone of the environment gets its own
\* settings, all nine fields of them.
THEOREM StartupEnvZones == Spec => []EnvZonesAsGiven
<1>1. ASSUME StartupInv, mode = "env", Started PROVE EnvZonesAsGiven
  <2> DEFINE named == {n \in DOMAIN Rank : \E v \in environ : \E f \in Fields : v.key = n \o f}
  <2>1. unread = {}
    BY <1>1, Zenon DEF StartupInv, Stages, Started
  <2>2. DOMAIN configs = named
    BY <1>1, <2>1, NamedZones
  <2>3. PICK zcs \in EnvConfigs : zones = NewMulti(zcs)
    BY <1>1 DEF StartupInv, ZonesBuilt
  <2>4. PICK s \in Sorted(DOMAIN configs) : zcs = [k \in DOMAIN s |-> Resolved(configs[s[k]])]
    BY DEF EnvConfigs
  <2>5. /\ DOMAIN zones = DOMAIN s
        /\ \A k \in DOMAIN s : s[k] \in DOMAIN configs /\ zones[k] = New(Resolved(configs[s[k]]))
    BY <2>3, <2>4 DEF NewMulti, Sorted
  <2> HIDE DEF named
  <2>6. \A k \in DOMAIN s : zones[k] = New(AsGiven(s[k]))
    BY <1>1, <2>1, <2>5, ResolvedAsGiven, Zenon
  <2>7. s \in Sorted(named)
    BY <2>2, <2>4
  <2> QED BY <2>5, <2>6, <2>7, Zenon DEF EnvZonesAsGiven, named
<1>2. StartupInv => EnvZonesAsGiven
  BY <1>1 DEF EnvZonesAsGiven
<1> QED BY <1>2, StartupInvariant, PTL
=============================================================================
