------------------------- MODULE RadiusConfigProofs -------------------------
(***************************************************************************)
(* Theorems about the configuration and the sessions under it, for any     *)
(* directives, dictionary files and sizes.                                 *)
(***************************************************************************)
EXTENDS RadiusConfig, RadiusProofs, WellFoundedInduction

-----------------------------------------------------------------------------
(* The session does not notice the configuration                           *)

\* A step of the configuration stutters in the session; any other is one of the session.
LEMMA ConfigStepIsSession == [ConfigNext]_<<vars, configVars>> => [Next]_vars
  BY DEF ConfigNext, Serve, Down

LEMMA ConfigInitIsSession == ConfigInit => Init
  BY DEF ConfigInit

\* Every behaviour of a configured module is one of a session.
THEOREM ConfigIsSession == ConfigSpec => Init /\ [][Next]_vars
  BY ConfigStepIsSession, ConfigInitIsSession, PTL DEF ConfigSpec

\* What is proved of a session holds under any configuration.
THEOREM ConfigSessionSafe ==
    ConfigSpec => [](TypeOK /\ InsidePacket /\ ParsedRight /\ RequestIsWhole
                     /\ DatagramNeverWaits /\ DatagramRecorded)
<1>1. SInv /\ RInv => TypeOK /\ InsidePacket /\ RequestIsWhole /\ DatagramNeverWaits /\ DatagramRecorded
  BY DEF SInv, RInv, DatagramRecorded, RecordsFirst, IsFirstPacket
<1>2. QED BY <1>1, ConfigIsSession, WalkParsedRight, InitSInv, InitRInv, InitWInv,
            StepSInv, StepRInv, StepWInv, PTL

-----------------------------------------------------------------------------
(* Types of the dictionary                                                 *)

AVendor == [id : Nat, name : Token \cup {Null}, attrs : Seq(Def)]

Unique(vs) == \A i, j \in DOMAIN vs : vs[i].id = vs[j].id => i = j

\* A type keyword always has a type.
LEMMA TypeOfType ==
    ASSUME NEW t
    PROVE  TypeOf(t) \in Type
<1> DEFINE kw == Lowered(t)
<1>1. CASE kw = <<"string">>
  BY <1>1 DEF TypeOf, Type
<1>2. CASE kw \in {<<"integer">>, <<"byte">>, <<"short">>, <<"signed">>}
  BY <1>2 DEF TypeOf, Type
<1>3. CASE kw \in {<<"ipaddr">>, <<"date">>, <<"ipv6addr">>, <<"ipv6prefix">>, <<"ifid">>,
                   <<"integer64">>, <<"ether">>}
  BY <1>3 DEF TypeOf, Type
<1>4. CASE /\ kw # <<"string">>
           /\ kw \notin {<<"integer">>, <<"byte">>, <<"short">>, <<"signed">>}
           /\ kw \notin {<<"ipaddr">>, <<"date">>, <<"ipv6addr">>, <<"ipv6prefix">>, <<"ifid">>,
                         <<"integer64">>, <<"ether">>}
  BY <1>4 DEF TypeOf, Type
<1>5. QED BY <1>1, <1>2, <1>3, <1>4

\* A token is a number, or 0.
LEMMA AtoiNat == \A t : Atoi(t) \in Nat
  BY TextAssumption DEF Atoi

LEMMA DataNat ==
    ASSUME NEW v \in Nat, NEW c \in Nat
    PROVE  VsaData(v, c) \in Nat
<1>1. v % VendorIds \in Nat
  BY TextAssumption
<1>2. c % 256 \in Nat
  OBVIOUS
<1>3. QED BY <1>1, <1>2 DEF VsaData

\* A vendor number and a type that fit their fields come back from a variable's data
\* (ngx_stream_radius_module.h:188-192).
THEOREM VsaPacking ==
    \A v \in Nat, c \in Nat : v < VendorIds /\ c < 256 =>
        VsaVendor(VsaData(v, c)) = v /\ VsaType(VsaData(v, c)) = c
<1> SUFFICES ASSUME NEW v \in Nat, NEW c \in Nat, v < VendorIds, c < 256
             PROVE  VsaVendor(VsaData(v, c)) = v /\ VsaType(VsaData(v, c)) = c
  OBVIOUS
<1>1. v % VendorIds = v
  BY TextAssumption
<1>2. c % 256 = c
  OBVIOUS
<1>3. VsaData(v, c) = v * 256 + c
  BY <1>1, <1>2 DEF VsaData
<1>4. (v * 256 + c) \div 256 = v /\ (v * 256 + c) % 256 = c
  OBVIOUS
<1>5. QED BY <1>1, <1>3, <1>4 DEF VsaVendor, VsaType

-----------------------------------------------------------------------------
(* Lines of a dictionary                                                   *)

LEMMA AppendIn ==
    ASSUME NEW S, NEW s \in Seq(S), NEW e \in S
    PROVE  Append(s, e) \in Seq(S)
  OBVIOUS

\* Of an appended sequence without ids that occur twice.
LEMMA AppendUnique ==
    ASSUME NEW vs \in Seq(AVendor), Unique(vs), NEW v \in AVendor,
           \A i \in DOMAIN vs : vs[i].id # v.id
    PROVE  /\ Append(vs, v) \in Seq(AVendor)
           /\ Unique(Append(vs, v))
           /\ Len(vs) + 1 \in DOMAIN Append(vs, v)
           /\ Append(vs, v)[Len(vs) + 1] = v
<1> DEFINE all == Append(vs, v)
<1>1. /\ all \in Seq(AVendor) /\ Len(vs) \in Nat
      /\ DOMAIN all = 1..Len(vs) + 1 /\ DOMAIN vs = 1..Len(vs)
      /\ all[Len(vs) + 1] = v /\ \A i \in 1..Len(vs) : all[i] = vs[i]
  OBVIOUS
<1> HIDE DEF all
<1>2. ASSUME NEW i \in DOMAIN all, NEW j \in DOMAIN all, all[i].id = all[j].id
      PROVE  i = j
  <2>1. CASE i \in 1..Len(vs) /\ j \in 1..Len(vs)
    <3>1. vs[i].id = vs[j].id
      BY <1>1, <1>2, <2>1
    <3>2. QED BY <3>1, <2>1, <1>1 DEF Unique
  <2>2. CASE i = Len(vs) + 1 /\ j \in 1..Len(vs)
    BY <1>1, <1>2, <2>2
  <2>3. CASE i \in 1..Len(vs) /\ j = Len(vs) + 1
    BY <1>1, <1>2, <2>3
  <2>4. CASE i = Len(vs) + 1 /\ j = Len(vs) + 1
    BY <2>4
  <2>5. i \in 1..Len(vs) + 1 /\ j \in 1..Len(vs) + 1
    BY <1>1
  <2>6. QED BY <2>1, <2>2, <2>3, <2>4, <2>5, <1>1
<1>3. Unique(all)
  BY <1>2 DEF Unique
<1>4. QED BY <1>1, <1>3 DEF all

\* A vendor is found under its number, or is new: no number comes twice.
LEMMA WithVendorFacts ==
    ASSUME dict \in Dictionary, Unique(dict.vendors), NEW id \in Nat,
           NEW name \in Token \cup {Null}
    PROVE  /\ WithVendor(id, name) \in Seq(AVendor)
           /\ Unique(WithVendor(id, name))
           /\ \E i \in DOMAIN WithVendor(id, name) : WithVendor(id, name)[i].id = id
<1>1. dict.vendors \in Seq(AVendor)
  BY DEF Dictionary, Vendors, AVendor
<1>2. CASE Known(id)
  BY <1>1, <1>2 DEF WithVendor, Known
<1>3. CASE ~Known(id)
  <2> DEFINE v == NewVendor(id, name)
  <2>1. v \in AVendor /\ v.id = id
    BY DEF NewVendor, AVendor
  <2>2. \A i \in DOMAIN dict.vendors : dict.vendors[i].id # v.id
    BY <1>3, <2>1 DEF Known
  <2>3. WithVendor(id, name) = Append(dict.vendors, v)
    BY <1>3 DEF WithVendor
  <2> HIDE DEF v
  <2>4. QED BY <1>1, <2>1, <2>2, <2>3, AppendUnique
<1>4. QED BY <1>2, <1>3

\* Adding an attribute to a vendor leaves the numbers as they are.
LEMMA AttributeAdded ==
    ASSUME NEW all \in Seq(AVendor), Unique(all), NEW k \in DOMAIN all, NEW def \in Def
    PROVE  LET new == [all EXCEPT ![k].attrs = Append(@, def)]
           IN  new \in Seq(AVendor) /\ Unique(new)
<1> DEFINE new == [all EXCEPT ![k].attrs = Append(@, def)]
           more == [all[k] EXCEPT !.attrs = Append(@, def)]
<1>1. all[k] \in AVendor
  OBVIOUS
<1>2. more \in AVendor /\ more.id = all[k].id
  <2>1. all[k].attrs \in Seq(Def)
    BY <1>1 DEF AVendor
  <2>2. PICK as \in Seq(Def) : as = Append(all[k].attrs, def)
    BY <2>1, AppendIn, Zenon
  <2>3. more = [all[k] EXCEPT !.attrs = as]
    BY <2>2
  <2> HIDE DEF more
  <2>4. QED BY <1>1, <2>3 DEF AVendor
<1>3. new = [all EXCEPT ![k] = more]
  OBVIOUS
<1> HIDE DEF new, more
<1>4. new \in Seq(AVendor) /\ DOMAIN new = DOMAIN all
  BY <1>2, <1>3
<1>5. \A i \in DOMAIN all : new[i].id = all[i].id
  BY <1>2, <1>3
<1>6. Unique(new)
  BY <1>4, <1>5 DEF Unique
<1>7. QED BY <1>4, <1>6 DEF new

-----------------------------------------------------------------------------
(* The invariant                                                           *)

ALine == [key : STRING, args : Seq(Token)]

DictOK == dict \in Dictionary /\ Unique(dict.vendors)

\* Inductive: there is a dictionary as soon as a file is loaded, and a file is loaded only
\* for a directive that names one.
CInv ==
    /\ plan \in Seq(Directives)
    /\ stage \in {"directives", "loading", "registering", "refused", "crashed", "serving"}
    /\ at \in 1..Len(plan) + 1
    /\ line \in Nat \ {0}
    /\ current \in Nat
    /\ next \in (Nat \ {0}) \X (Nat \ {0})
    /\ strayed \in BOOLEAN
    /\ dict # Null => DictOK
    /\ stage \in {"loading", "registering", "serving"} => DictOK
    /\ stage \in {"loading", "registering"} =>
         at \in 1..Len(plan) /\ Directive.file \in Seq(ALine)
    /\ \A n \in DOMAIN registered : registered[n].data \in Nat

LEMMA DirectiveFacts ==
    ASSUME CInv, Reading
    PROVE  /\ at \in 1..Len(plan) /\ at + 1 \in 1..Len(plan) + 1
           /\ Directive \in Directives
           /\ Directive.kind = "radius_dict" /\ Directive.file # Null =>
                Directive.file \in Seq(ALine)
<1>1. plan \in Seq(Directives) /\ at \in 1..Len(plan) + 1 /\ at <= Len(plan)
  BY DEF CInv, Reading
<1>2. at \in 1..Len(plan) /\ at + 1 \in 1..Len(plan) + 1
  BY <1>1
<1>3. plan[at] \in Directives
  BY <1>1, <1>2
<1>4. QED BY <1>2, <1>3 DEF Directive, Directives, ALine

LEMMA BaseOK ==
    ASSUME CInv
    PROVE  /\ Base \in Dictionary /\ Unique(Base.vendors)
           /\ Len(Base.vendors) \in Nat
<1>1. CASE dict = Null
  <2>1. Base = [attrs |-> Builtin, vendors |-> <<>>]
    BY <1>1 DEF Base
  <2>2. <<>> \in Vendors /\ Unique(<<>>)
    BY DEF Vendors, Unique
  <2>3. QED BY <2>1, <2>2, TextAssumption DEF Dictionary
<1>2. CASE dict # Null
  <2>1. Base = dict /\ DictOK
    BY <1>2 DEF Base, CInv
  <2>2. Len(dict.vendors) \in Nat
    BY <2>1 DEF DictOK, Dictionary, Vendors
  <2>3. QED BY <2>1, <2>2 DEF DictOK
<1>3. QED BY <1>1, <1>2

\* What a line is, and what is left alone while it is loaded.
LEMMA LoadFacts ==
    ASSUME CInv, NEW key, NEW n \in Nat, Load(key, n)
    PROVE  /\ stage = "loading" /\ DictOK
           /\ UNCHANGED <<plan, stage, at, next, registered>>
           /\ line' \in Nat \ {0}
           /\ Args \in Seq(Token) /\ Len(Args) \in Nat /\ Len(Args) >= n
<1>1. stage = "loading" /\ DictOK /\ Directive.file \in Seq(ALine) /\ line \in Nat \ {0}
  BY DEF CInv, Load
<1>2. line \in 1..Len(Directive.file)
  BY <1>1 DEF Load
<1>3. Directive.file[line] \in ALine
  BY <1>1, <1>2
<1>4. Args \in Seq(Token)
  BY <1>3 DEF Args, Line, ALine
<1>5. line' \in Nat \ {0}
  BY <1>1 DEF Load
<1>6. QED BY <1>1, <1>4, <1>5 DEF Load

\* A line keeps the invariant if it keeps the dictionary's.
LEMMA LineInv ==
    ASSUME CInv, NEW key, NEW n \in Nat, Load(key, n), DictOK', current' \in Nat,
           strayed' \in BOOLEAN
    PROVE  CInv'
<1>1. /\ stage = "loading" /\ UNCHANGED <<plan, stage, at, next, registered>>
      /\ line' \in Nat \ {0}
  BY LoadFacts
<1>2. Directive' = Directive
  BY <1>1 DEF Directive
<1>3. QED BY <1>1, <1>2 DEF CInv

LEMMA InitCInv == ConfigInit => CInv
<1> SUFFICES ASSUME ConfigInit PROVE CInv
  OBVIOUS
<1>1. PICK c \in Case : plan = c[1]
  BY DEF ConfigInit
<1>2. plan \in Seq(Directives)
  BY <1>1, CaseAssumption
<1>3. Len(plan) \in Nat
  BY <1>2
<1>4. at \in 1..Len(plan) + 1
  BY <1>3 DEF ConfigInit
<1>5. /\ stage = "directives" /\ line = 1 /\ current = 0 /\ next = <<1, 1>> /\ dict = Null
      /\ registered = [n \in {} |-> 0] /\ strayed = FALSE
  BY DEF ConfigInit
<1>6. DOMAIN registered = {}
  BY <1>5
<1>7. next \in (Nat \ {0}) \X (Nat \ {0})
  <2>1. <<1, 1>> \in (Nat \ {0}) \X (Nat \ {0})
    OBVIOUS
  <2>2. QED BY <1>5, <2>1, Zenon
<1>8. QED BY <1>2, <1>4, <1>5, <1>6, <1>7 DEF CInv

-----------------------------------------------------------------------------
(* Steps                                                                   *)

LEMMA RefuseInv ==
    ASSUME CInv, Refuse, strayed' = strayed
    PROVE  CInv'
<1>1. DictOK' <=> DictOK
  BY DEF Refuse, DictOK
<1>2. QED BY <1>1 DEF Refuse, CInv

LEMMA StartDictInv ==
    ASSUME CInv, StartDict
    PROVE  CInv'
<1>1. Reading
  BY DEF StartDict
<1>2. /\ at \in 1..Len(plan) /\ Directive.file \in Seq(ALine) /\ Directive' = Directive
  BY <1>1, DirectiveFacts DEF StartDict, Directive
<1>3. DictOK'
  BY BaseOK DEF StartDict, DictOK
<1>4. next' \in (Nat \ {0}) \X (Nat \ {0})
  BY BaseOK DEF StartDict
<1>5. QED BY <1>1, <1>2, <1>3, <1>4 DEF StartDict, CInv

LEMMA DeclareVendorInv ==
    ASSUME CInv, DeclareVendor
    PROVE  CInv'
<1>1. Load("VENDOR", 2) /\ UNCHANGED <<current, strayed>>
  BY DEF DeclareVendor
<1>2. DictOK /\ Args \in Seq(Token) /\ Len(Args) \in Nat /\ Len(Args) >= 2
  BY <1>1, LoadFacts
<1>3. Args[1] \in Token \cup {Null} /\ Atoi(Args[2]) \in Nat
  BY <1>2, AtoiNat
<1> DEFINE all == WithVendor(Atoi(Args[2]), Args[1])
<1>4. all \in Seq(AVendor) /\ Unique(all)
  BY <1>2, <1>3, WithVendorFacts DEF DictOK
<1>5. dict' = [dict EXCEPT !.vendors = all]
  BY DEF DeclareVendor
<1> HIDE DEF all
<1>6. dict' \in Dictionary /\ dict'.vendors = all
  BY <1>2, <1>4, <1>5 DEF DictOK, Dictionary, Vendors, AVendor
<1>7. DictOK'
  BY <1>4, <1>6 DEF DictOK
<1>8. QED BY <1>1, <1>7, LineInv DEF CInv

LEMMA BlockInv ==
    ASSUME CInv, BeginById \/ BeginByName \/ EndVendor \/ Ignored
    PROVE  CInv'
<1>1. CASE BeginById
  <2>1. Load("BEGIN-VENDOR", 1) /\ UNCHANGED <<dict, strayed>> /\ current' \in Nat
    BY <1>1, TextAssumption DEF BeginById
  <2>2. DictOK'
    BY <2>1, LoadFacts DEF DictOK
  <2>3. QED BY <2>1, <2>2, LineInv DEF CInv
<1>2. CASE BeginByName
  <2>1. Load("BEGIN-VENDOR", 1) /\ UNCHANGED dict
    BY <1>2 DEF BeginByName
  <2>2. DictOK /\ DictOK'
    BY <2>1, LoadFacts DEF DictOK
  <2>3. PICK found \in Scanned(Args[1]) : current' = FirstId(found)
    BY <1>2 DEF BeginByName
  <2>4. found \subseteq DOMAIN dict.vendors
    BY <2>3 DEF Scanned
  <2>5. strayed' \in BOOLEAN
    BY <1>2 DEF BeginByName
  <2>6. FirstId(found) \in Nat
    <3>1. CASE found = {}
      BY <3>1 DEF FirstId
    <3>2. CASE found # {}
      <4>1. \E i \in found : \A j \in found : i <= j
        <5>1. found \subseteq 1..Len(dict.vendors) /\ Len(dict.vendors) \in Nat
          BY <2>2, <2>4 DEF DictOK, Dictionary, Vendors
        <5>2. QED BY <5>1, <3>2, LeastOf
      <4>2. PICK i \in found : FirstId(found) = dict.vendors[i].id
        BY <4>1, <3>2 DEF FirstId
      <4>3. dict.vendors[i] \in AVendor
        <5>1. dict.vendors \in Seq(AVendor) /\ i \in DOMAIN dict.vendors
          BY <2>2, <2>4 DEF DictOK, Dictionary, Vendors, AVendor
        <5>2. QED BY <5>1
      <4>4. QED BY <4>2, <4>3 DEF AVendor
    <3>3. QED BY <3>1, <3>2
  <2>7. QED BY <2>1, <2>2, <2>3, <2>5, <2>6, LineInv
<1>3. CASE EndVendor
  <2>1. Load("END-VENDOR", 0) /\ UNCHANGED <<dict, strayed>> /\ current' = 0
    BY <1>3 DEF EndVendor
  <2>2. DictOK'
    BY <2>1, LoadFacts DEF DictOK
  <2>3. QED BY <2>1, <2>2, LineInv DEF CInv
<1>4. CASE Ignored
  <2>1. Load(Line.key, 0) /\ UNCHANGED <<current, dict, strayed>>
    BY <1>4 DEF Ignored
  <2>2. DictOK'
    BY <2>1, LoadFacts DEF DictOK
  <2>3. QED BY <2>1, <2>2, LineInv DEF CInv
<1>5. QED BY <1>1, <1>2, <1>3, <1>4

LEMMA AttributeInv ==
    ASSUME CInv, Attribute
    PROVE  CInv'
<1> DEFINE id  == AttributeVendor
           def == [code |-> Atoi(Args[2]), type |-> TypeOf(Args[3]), name |-> Args[1]]
           all == WithVendor(id, Null)
           k   == Place(all, id)
           new == [all EXCEPT ![k].attrs = Append(@, def)]
<1>1. Load("ATTRIBUTE", 3) /\ UNCHANGED <<current, strayed>>
  BY DEF Attribute
<1>2. DictOK /\ Args \in Seq(Token) /\ Len(Args) \in Nat /\ Len(Args) >= 3
  BY <1>1, LoadFacts
<1>3. id \in Nat
  BY TextAssumption DEF AttributeVendor, CInv
<1>4. def \in Def
  <2>1. Args[1] \in Token
    BY <1>2
  <2>2. QED BY <2>1, AtoiNat, TypeOfType DEF Def
<1>5. dict' = IF id = 0 THEN [dict EXCEPT !.attrs = Append(@, def)]
              ELSE [dict EXCEPT !.vendors = new]
  BY DEF Attribute
<1> HIDE DEF def, id
<1>6. CASE id = 0
  <2>1. dict.attrs \in Seq(Def)
    BY <1>2 DEF DictOK, Dictionary
  <2>2. PICK as \in Seq(Def) : as = Append(dict.attrs, def)
    BY <2>1, <1>4, AppendIn, Zenon
  <2>3. dict' = [dict EXCEPT !.attrs = as]
    BY <1>5, <1>6, <2>2
  <2>4. dict' \in Dictionary /\ dict'.vendors = dict.vendors
    BY <1>2, <2>3 DEF DictOK, Dictionary
  <2>5. DictOK'
    BY <1>2, <2>4 DEF DictOK
  <2>6. QED BY <1>1, <2>5, LineInv DEF CInv
<1>7. CASE id # 0
  <2>1. /\ all \in Seq(AVendor) /\ Unique(all)
        /\ \E i \in DOMAIN all : all[i].id = id
    BY <1>2, <1>3, WithVendorFacts DEF DictOK
  <2>2. k \in DOMAIN all
    BY <2>1 DEF Place
  <2> HIDE DEF all, k
  <2>3. new \in Seq(AVendor) /\ Unique(new)
    BY <2>1, <2>2, <1>4, AttributeAdded
  <2>4. dict' = [dict EXCEPT !.vendors = new]
    BY <1>5, <1>7
  <2> HIDE DEF new
  <2>5. dict' \in Dictionary /\ dict'.vendors = new
    BY <1>2, <2>3, <2>4 DEF DictOK, Dictionary, Vendors, AVendor
  <2>6. DictOK'
    BY <2>3, <2>5 DEF DictOK
  <2>7. QED BY <1>1, <2>6, LineInv DEF CInv
<1>8. QED BY <1>6, <1>7

\* A crash, and the end of a file.
LEMMA StopInv ==
    ASSUME CInv, BeginFalls \/ EndOfFile
    PROVE  CInv'
<1>1. stage = "loading" /\ stage' \in {"crashed", "registering"}
      /\ UNCHANGED <<plan, at, line, current, next, dict, registered, strayed>>
  BY DEF BeginFalls, EndOfFile
<1>2. Directive' = Directive /\ (DictOK' <=> DictOK)
  BY <1>1 DEF Directive, DictOK
<1>3. QED BY <1>1, <1>2 DEF CInv

\* One more variable.
LEMMA DataKept ==
    ASSUME NEW name, NEW by, NEW d \in Nat, \A m \in DOMAIN registered : registered[m].data \in Nat
    PROVE  \A m \in DOMAIN Added(name, by, d) : Added(name, by, d)[m].data \in Nat
  BY DEF Added

LEMMA DefineInv ==
    ASSUME CInv, Define \/ DefineAgain \/ NoFile
    PROVE  CInv'
<1>1. CASE Refuse /\ strayed' = strayed
  BY <1>1, RefuseInv
<1>2. CASE /\ Reading /\ at' = at + 1
           /\ UNCHANGED <<plan, stage, line, current, next, dict, strayed>>
           /\ \/ registered' = registered
              \/ registered' = Added(Directive.name, "map", 0)
  <2>1. at' \in 1..Len(plan) + 1 /\ stage = "directives"
    BY <1>2, DirectiveFacts DEF Reading
  <2>2. \A n \in DOMAIN registered : registered[n].data \in Nat
    BY DEF CInv
  <2>3. \A n \in DOMAIN registered' : registered'[n].data \in Nat
    BY <1>2, <2>2, DataKept
  <2>4. DictOK' <=> DictOK
    BY <1>2 DEF DictOK
  <2>5. QED BY <1>2, <2>1, <2>3, <2>4 DEF CInv
<1>3. QED BY <1>1, <1>2 DEF Define, DefineAgain, NoFile

LEMMA RegisteringFacts ==
    ASSUME CInv, stage = "registering"
    PROVE  /\ next[1] \in Nat \ {0} /\ next[2] \in Nat \ {0}
           /\ Len(dict.vendors) \in Nat
           /\ Registering => VsaData(VendorNext.id, AttrNext.code) \in Nat
<1>1. next[1] \in Nat \ {0} /\ next[2] \in Nat \ {0}
  BY DEF CInv
<1>2. dict.vendors \in Seq(AVendor)
  BY DEF CInv, DictOK, Dictionary, Vendors, AVendor
<1>3. Len(dict.vendors) \in Nat
  BY <1>2
<1>4. ASSUME Registering PROVE VsaData(VendorNext.id, AttrNext.code) \in Nat
  <2>1. next[1] \in DOMAIN dict.vendors
    BY <1>1, <1>2, <1>4 DEF Registering
  <2>2. VendorNext \in AVendor
    BY <1>2, <2>1 DEF VendorNext
  <2>3. VendorNext.id \in Nat /\ VendorNext.attrs \in Seq(Def)
    BY <2>2 DEF AVendor
  <2>4. next[2] \in DOMAIN VendorNext.attrs
    BY <1>1, <2>3, <1>4 DEF Registering
  <2>5. AttrNext \in Def
    BY <2>3, <2>4 DEF AttrNext
  <2>6. AttrNext.code \in Nat
    BY <2>5 DEF Def
  <2>7. QED BY <2>3, <2>6, DataNat
<1>5. QED BY <1>1, <1>3, <1>4

LEMMA RegisterInv ==
    ASSUME CInv, Register \/ RegisterAgain \/ NextVendor
    PROVE  CInv'
<1>1. CASE Refuse /\ strayed' = strayed
  BY <1>1, RefuseInv
<1> DEFINE d == VsaData(VendorNext.id, AttrNext.code)
<1>2. CASE /\ stage = "registering"
           /\ next' \in {<<next[1], next[2] + 1>>, <<next[1] + 1, 1>>}
           /\ UNCHANGED <<plan, stage, at, line, current, dict, strayed>>
           /\ \/ registered' = registered
              \/ /\ Registering
                 /\ registered' = Added(NameNext, "radius", d)
  <2>1. next' \in (Nat \ {0}) \X (Nat \ {0})
    BY <1>2, RegisteringFacts
  <2>2. \A n \in DOMAIN registered : registered[n].data \in Nat
    BY DEF CInv
  <2>3. Registering => d \in Nat
    BY <1>2, RegisteringFacts
  <2> HIDE DEF d
  <2>4. \A n \in DOMAIN registered' : registered'[n].data \in Nat
    BY <1>2, <2>2, <2>3, DataKept
  <2>5. Directive' = Directive /\ (DictOK' <=> DictOK)
    BY <1>2 DEF Directive, DictOK
  <2>6. QED BY <1>2, <2>1, <2>4, <2>5 DEF CInv
<1>3. QED BY <1>1, <1>2 DEF Register, RegisterAgain, NextVendor, Registering

LEMMA EndDictInv ==
    ASSUME CInv, EndDict
    PROVE  CInv'
<1>1. /\ stage = "registering" /\ stage' = "directives" /\ at' = at + 1
      /\ UNCHANGED <<plan, line, current, next, dict, registered, strayed>>
  BY DEF EndDict
<1>2. at' \in 1..Len(plan) + 1
  BY <1>1 DEF CInv
<1>3. DictOK' <=> DictOK
  BY <1>1 DEF DictOK
<1>4. QED BY <1>1, <1>2, <1>3 DEF CInv

LEMMA ConfiguredInv ==
    ASSUME CInv, Configured
    PROVE  CInv'
<1>1. /\ stage = "directives" /\ stage' = "serving" /\ dict' = Base
      /\ UNCHANGED <<plan, at, line, current, next, registered, strayed>>
  BY DEF Configured
<1>2. DictOK'
  BY <1>1, BaseOK DEF DictOK
<1>3. QED BY <1>1, <1>2 DEF CInv

\* Serving changes nothing of the configuration.
LEMMA StillInv ==
    ASSUME CInv, UNCHANGED configVars
    PROVE  CInv'
<1>1. Directive' = Directive /\ (DictOK' <=> DictOK)
  BY DEF configVars, Directive, DictOK
<1>2. QED BY <1>1 DEF CInv, configVars

LEMMA StepCInv == CInv /\ [ConfigNext]_<<vars, configVars>> => CInv'
<1> SUFFICES ASSUME CInv, [ConfigNext]_<<vars, configVars>>
             PROVE  CInv'
  OBVIOUS
<1>1. CASE Define \/ DefineAgain \/ NoFile
  BY <1>1, DefineInv
<1>2. CASE StartDict
  BY <1>2, StartDictInv
<1>3. CASE DeclareVendor
  BY <1>3, DeclareVendorInv
<1>4. CASE BeginById \/ BeginByName \/ EndVendor \/ Ignored
  BY <1>4, BlockInv
<1>5. CASE Attribute
  BY <1>5, AttributeInv
<1>6. CASE BeginFalls \/ EndOfFile
  BY <1>6, StopInv
<1>7. CASE Register \/ RegisterAgain \/ NextVendor
  BY <1>7, RegisterInv
<1>8. CASE EndDict
  BY <1>8, EndDictInv
<1>9. CASE Configured
  BY <1>9, ConfiguredInv
<1>10. CASE UNCHANGED configVars
  BY <1>10, StillInv
<1>11. QED
  BY <1>1, <1>2, <1>3, <1>4, <1>5, <1>6, <1>7, <1>8, <1>9, <1>10
     DEF ConfigNext, Configure, Serve, Down

\* While files are loaded, whatever their lines say, the dictionary keeps its types, no two
\* vendors share a number, and each variable has data to be read by.
THEOREM ConfigTypeCorrect == ConfigSpec => []ConfigTypeOK
<1>1. CInv => ConfigTypeOK
  BY DEF CInv, ConfigTypeOK, DictOK, Unique
<1>2. QED BY <1>1, InitCInv, StepCInv, PTL DEF ConfigSpec

-----------------------------------------------------------------------------
(* What a variable is bound to                                             *)

Grown(vs, ws) ==
    /\ DOMAIN vs \subseteq DOMAIN ws
    /\ \A i \in DOMAIN vs :
         /\ ws[i].id = vs[i].id /\ ws[i].name = vs[i].name
         /\ DOMAIN vs[i].attrs \subseteq DOMAIN ws[i].attrs
         /\ \A j \in DOMAIN vs[i].attrs : ws[i].attrs[j] = vs[i].attrs[j]

BoundIn(vs, n, d) ==
    \E i \in DOMAIN vs : \E j \in DOMAIN vs[i].attrs :
        /\ n = VarName(vs[i].name, vs[i].attrs[j].name)
        /\ d = VsaData(vs[i].id, vs[i].attrs[j].code)

\* A variable that the module adds is bound to an attribute of the dictionary: it has the
\* attribute's name, and its data are the attribute's vendor and type.  So it stays while
\* later files add vendors and attributes.
VariablesBound ==
    \A n \in DOMAIN registered : registered[n].by = "radius" =>
        dict # Null /\ BoundIn(dict.vendors, n, registered[n].data)

LEMMA GrownBound ==
    ASSUME NEW vs, NEW ws, Grown(vs, ws), NEW n, NEW d, BoundIn(vs, n, d)
    PROVE  BoundIn(ws, n, d)
<1>1. PICK i \in DOMAIN vs : \E j \in DOMAIN vs[i].attrs :
        /\ n = VarName(vs[i].name, vs[i].attrs[j].name)
        /\ d = VsaData(vs[i].id, vs[i].attrs[j].code)
  BY DEF BoundIn
<1>2. PICK j \in DOMAIN vs[i].attrs :
        /\ n = VarName(vs[i].name, vs[i].attrs[j].name)
        /\ d = VsaData(vs[i].id, vs[i].attrs[j].code)
  BY <1>1
<1>3. /\ i \in DOMAIN ws /\ j \in DOMAIN ws[i].attrs
      /\ ws[i].id = vs[i].id /\ ws[i].name = vs[i].name /\ ws[i].attrs[j] = vs[i].attrs[j]
  BY <1>1, <1>2 DEF Grown
<1>4. QED BY <1>2, <1>3 DEF BoundIn

LEMMA AppendGrown ==
    ASSUME NEW vs \in Seq(AVendor), NEW v
    PROVE  Grown(vs, Append(vs, v))
  BY DEF Grown

\* A vendor that is found is left alone, one that is not comes after the others.
LEMMA WithVendorGrown ==
    ASSUME DictOK, NEW id, NEW name
    PROVE  Grown(dict.vendors, WithVendor(id, name))
<1>1. dict.vendors \in Seq(AVendor)
  BY DEF DictOK, Dictionary, Vendors, AVendor
<1>2. CASE Known(id)
  BY <1>2 DEF WithVendor, Grown
<1>3. CASE ~Known(id)
  BY <1>1, <1>3, AppendGrown DEF WithVendor, NewVendor
<1>4. QED BY <1>2, <1>3

LEMMA AttributeGrown ==
    ASSUME NEW all \in Seq(AVendor), NEW k \in DOMAIN all, NEW def \in Def
    PROVE  Grown(all, [all EXCEPT ![k].attrs = Append(@, def)])
<1> DEFINE as   == Append(all[k].attrs, def)
           more == [all[k] EXCEPT !.attrs = as]
           new  == [all EXCEPT ![k].attrs = Append(@, def)]
<1>0. all[k] \in AVendor
  OBVIOUS
<1>1. all[k] \in AVendor /\ all[k].attrs \in Seq(Def)
  BY <1>0 DEF AVendor
<1>2. /\ DOMAIN all[k].attrs \subseteq DOMAIN as
      /\ \A j \in DOMAIN all[k].attrs : as[j] = all[k].attrs[j]
  BY <1>1
<1>3. new = [all EXCEPT ![k] = more]
  OBVIOUS
<1> HIDE DEF as
<1>4. more.id = all[k].id /\ more.name = all[k].name /\ more.attrs = as
  BY <1>1 DEF AVendor
<1> HIDE DEF more, new
<1>5. DOMAIN new = DOMAIN all /\ new[k] = more /\ \A i \in DOMAIN all \ {k} : new[i] = all[i]
  BY <1>3
<1>6. Grown(all, new)
  BY <1>2, <1>4, <1>5 DEF Grown
<1>7. QED BY <1>6 DEF new

LEMMA GrownTwice ==
    ASSUME NEW us, NEW vs, NEW ws, Grown(us, vs), Grown(vs, ws)
    PROVE  Grown(us, ws)
  BY DEF Grown

\* No step takes anything from the dictionary.
LEMMA DictGrows ==
    ASSUME CInv, dict # Null, [ConfigNext]_<<vars, configVars>>
    PROVE  dict' # Null /\ Grown(dict.vendors, dict'.vendors)
<1>1. CASE UNCHANGED dict
  BY <1>1 DEF Grown
<1>2. CASE StartDict \/ Configured
  <2>1. dict' = dict
    BY <1>2 DEF StartDict, Configured, Base
  <2>2. QED BY <2>1 DEF Grown
<1>3. CASE DeclareVendor
  <2> DEFINE all == WithVendor(Atoi(Args[2]), Args[1])
  <2>1. Load("VENDOR", 2) /\ dict' = [dict EXCEPT !.vendors = all]
    BY <1>3 DEF DeclareVendor
  <2>2. DictOK
    BY <2>1, LoadFacts
  <2>3. Grown(dict.vendors, all)
    BY <2>2, WithVendorGrown
  <2>4. DictOK'
    BY <1>3, DeclareVendorInv, LoadFacts, <2>1 DEF CInv
  <2> HIDE DEF all
  <2>5. dict'.vendors = all
    BY <2>1, <2>2 DEF DictOK, Dictionary
  <2>6. QED BY <2>3, <2>4, <2>5, NullAssumption DEF DictOK
<1>4. CASE Attribute
  <2> DEFINE id  == AttributeVendor
             def == [code |-> Atoi(Args[2]), type |-> TypeOf(Args[3]), name |-> Args[1]]
             all == WithVendor(id, Null)
             k   == Place(all, id)
             new == [all EXCEPT ![k].attrs = Append(@, def)]
  <2>1. /\ Load("ATTRIBUTE", 3)
        /\ dict' = IF id = 0 THEN [dict EXCEPT !.attrs = Append(@, def)]
                   ELSE [dict EXCEPT !.vendors = new]
    BY <1>4 DEF Attribute
  <2>2. DictOK /\ DictOK'
    BY <1>4, <2>1, AttributeInv, LoadFacts DEF CInv
  <2>3. dict' # Null
    BY <2>2, NullAssumption DEF DictOK
  <2>4. id \in Nat
    BY TextAssumption DEF AttributeVendor, CInv
  <2>5. def \in Def
    <3>1. Args \in Seq(Token) /\ Len(Args) \in Nat /\ Len(Args) >= 3
      BY <2>1, LoadFacts
    <3>2. Args[1] \in Token
      BY <3>1
    <3>3. QED BY <3>2, AtoiNat, TypeOfType DEF Def
  <2> HIDE DEF id, def
  <2>6. CASE id = 0
    <3>1. dict'.vendors = dict.vendors
      BY <2>1, <2>2, <2>6 DEF DictOK, Dictionary
    <3>2. QED BY <2>3, <3>1 DEF Grown
  <2>7. CASE id # 0
    <3>1. /\ all \in Seq(AVendor) /\ Grown(dict.vendors, all)
          /\ \E i \in DOMAIN all : all[i].id = id
      BY <2>2, <2>4, WithVendorFacts, WithVendorGrown DEF DictOK
    <3>2. k \in DOMAIN all
      BY <3>1 DEF Place
    <3> HIDE DEF all, k
    <3>3. Grown(all, new)
      BY <2>5, <3>1, <3>2, AttributeGrown
    <3> HIDE DEF new
    <3>4. dict'.vendors = new
      BY <2>1, <2>2, <2>7 DEF DictOK, Dictionary
    <3>5. QED BY <2>3, <3>1, <3>3, <3>4, GrownTwice
  <2>8. QED BY <2>6, <2>7
<1>5. QED
  BY <1>1, <1>2, <1>3, <1>4
     DEF ConfigNext, Configure, Serve, Down, configVars, Define, DefineAgain, Refuse, NoFile,
         BeginById, BeginByName, BeginFalls, EndVendor, Ignored, EndOfFile, Register,
         RegisterAgain, NextVendor, EndDict

LEMMA StepBound ==
    CInv /\ VariablesBound /\ [ConfigNext]_<<vars, configVars>> => VariablesBound'
<1> SUFFICES ASSUME CInv, VariablesBound, [ConfigNext]_<<vars, configVars>>,
                    NEW n \in DOMAIN registered', registered'[n].by = "radius"
             PROVE  dict' # Null /\ BoundIn(dict'.vendors, n, registered'[n].data)
  BY DEF VariablesBound
<1>1. CASE n \in DOMAIN registered /\ registered'[n] = registered[n]
  <2>1. dict # Null /\ BoundIn(dict.vendors, n, registered[n].data)
    BY <1>1 DEF VariablesBound
  <2>2. dict' # Null /\ Grown(dict.vendors, dict'.vendors)
    BY <2>1, DictGrows
  <2>3. QED BY <1>1, <2>1, <2>2, GrownBound
<1>2. CASE Register /\ n = NameNext
  <2> DEFINE d == VsaData(VendorNext.id, AttrNext.code)
  <2>1. Registering /\ dict' = dict /\ registered'[n].data = d
    BY <1>2 DEF Register, Added
  <2>2. dict # Null /\ dict.vendors \in Seq(AVendor) /\ next[1] \in Nat \ {0}
        /\ next[2] \in Nat \ {0}
    BY <2>1, NullAssumption
       DEF Registering, CInv, DictOK, Dictionary, Vendors, AVendor
  <2>3. next[1] \in DOMAIN dict.vendors
    BY <2>1, <2>2 DEF Registering
  <2>4. VendorNext \in AVendor
    BY <2>2, <2>3 DEF VendorNext
  <2>5. VendorNext.attrs \in Seq(Def)
    BY <2>4 DEF AVendor
  <2>6. next[2] \in DOMAIN VendorNext.attrs
    BY <2>1, <2>2, <2>5 DEF Registering
  <2>7. BoundIn(dict.vendors, n, d)
    BY <1>2, <2>3, <2>6 DEF BoundIn, NameNext, VendorNext, AttrNext
  <2>8. QED BY <2>1, <2>2, <2>7
<1>3. CASE Define
  BY <1>1, <1>3 DEF Define, Added
<1>4. CASE Register
  BY <1>1, <1>2, <1>4 DEF Register, Added
<1>5. CASE UNCHANGED registered
  BY <1>1, <1>5
<1>6. QED
  BY <1>3, <1>4, <1>5
     DEF ConfigNext, Configure, Serve, Down, configVars, DefineAgain, Refuse, NoFile,
         StartDict, DeclareVendor, BeginById, BeginByName, BeginFalls, EndVendor, Attribute,
         Ignored, Load, EndOfFile, RegisterAgain, NextVendor, EndDict, Configured

\* Whatever the directives and the files are, each variable of the module names an attribute
\* of the dictionary and is read by that attribute's vendor and type.
THEOREM VariablesAreBound == ConfigSpec => []VariablesBound
<1>1. ConfigInit => VariablesBound
  <2> SUFFICES ASSUME ConfigInit PROVE DOMAIN registered = {}
    BY DEF VariablesBound
  <2>1. registered = [n \in {} |-> 0]
    BY DEF ConfigInit
  <2>2. QED BY <2>1
<1>2. QED BY <1>1, InitCInv, StepCInv, StepBound, PTL DEF ConfigSpec

-----------------------------------------------------------------------------
(* What the files say                                                      *)

PlanOK == plan \in Seq(Directives)

Place2 == Nat \X Nat

\* A place is a line of a file that is there.
LEMMA PlaceFacts ==
    ASSUME PlanOK, NEW q \in Places
    PROVE  /\ q \in Place2 /\ q = <<q[1], q[2]>>
           /\ q[1] \in 1..Len(plan) /\ q[2] \in DOMAIN plan[q[1]].file
           /\ plan[q[1]].kind = "radius_dict" /\ plan[q[1]].file # Null
           /\ plan[q[1]].file \in Seq(ALine)
           /\ q[2] \in 1..Len(plan[q[1]].file) /\ Len(plan[q[1]].file) \in Nat
           /\ plan[q[1]].file[q[2]].args \in Seq(Token)
<1>1. PICK f \in DOMAIN plan : plan[f].kind = "radius_dict" /\ plan[f].file # Null
                               /\ q \in {f} \X DOMAIN plan[f].file
  BY DEF Places
<1>2. q[1] = f /\ q[2] \in DOMAIN plan[f].file /\ q = <<q[1], q[2]>>
  BY <1>1
<1>3. plan[f] \in Directives /\ f \in 1..Len(plan) /\ Len(plan) \in Nat
  BY DEF PlanOK
<1>4. plan[f].file \in Seq(ALine)
  BY <1>1, <1>3 DEF Directives, ALine
<1>5. q[2] \in 1..Len(plan[f].file) /\ Len(plan[f].file) \in Nat
  BY <1>2, <1>4
<1>6. plan[f].file[q[2]] \in ALine
  BY <1>4, <1>5
<1>7. q \in Place2
  BY <1>2, <1>3, <1>5 DEF Place2
<1>8. QED BY <1>1, <1>2, <1>3, <1>4, <1>5, <1>6, <1>7 DEF ALine

LEMMA PlaceIs ==
    ASSUME PlanOK, NEW f \in 1..Len(plan), plan[f].kind = "radius_dict", plan[f].file # Null,
           NEW l \in 1..Len(plan[f].file)
    PROVE  <<f, l>> \in Places
<1>1. f \in DOMAIN plan /\ plan[f] \in Directives
  BY DEF PlanOK
<1>2. plan[f].file \in Seq(ALine)
  BY <1>1 DEF Directives, ALine
<1>3. l \in DOMAIN plan[f].file
  BY <1>2
<1>4. <<f, l>> \in {f} \X DOMAIN plan[f].file
  BY <1>3
<1>5. QED BY <1>1, <1>4 DEF Places

\* The order of places.
LEMMA Order ==
    /\ \A q \in Place2 : ~Precedes(q, q)
    /\ \A q, r \in Place2 : Precedes(q, r) => ~Precedes(r, q) /\ q # r
    /\ \A q, r, s \in Place2 : Precedes(q, r) /\ Precedes(r, s) => Precedes(q, s)
    /\ \A q, r \in Place2 : q = r \/ Precedes(q, r) \/ Precedes(r, q)
  BY DEF Precedes, Place2

LEMMA EarliestIs ==
    ASSUME NEW S \in SUBSET Place2, NEW q \in S, \A r \in S \ {q} : Precedes(q, r)
    PROVE  Earliest(S) = q
<1> DEFINE P(x) == \A r \in S \ {x} : Precedes(x, r)
<1>1. P(q)
  OBVIOUS
<1>2. \A x \in S : P(x) => x = q
  <2>1. TAKE x \in S
  <2>2. HAVE P(x)
  <2>3. ASSUME x # q PROVE FALSE
    <3>1. Precedes(x, q) /\ Precedes(q, x)
      BY <2>2, <2>3
    <3>2. QED BY <3>1, Order
  <2>4. QED BY <2>3
<1>3. Earliest(S) = CHOOSE x \in S : P(x)
  BY DEF Earliest
<1> HIDE DEF P
<1>4. QED BY <1>1, <1>2, <1>3

LEMMA LatestIs ==
    ASSUME NEW S \in SUBSET Place2, NEW q \in S, \A r \in S \ {q} : Precedes(r, q)
    PROVE  Latest(S) = q
<1> DEFINE P(x) == \A r \in S \ {x} : Precedes(r, x)
<1>1. P(q)
  OBVIOUS
<1>2. \A x \in S : P(x) => x = q
  <2>1. TAKE x \in S
  <2>2. HAVE P(x)
  <2>3. ASSUME x # q PROVE FALSE
    <3>1. Precedes(x, q) /\ Precedes(q, x)
      BY <2>2, <2>3
    <3>2. QED BY <3>1, Order
  <2>4. QED BY <2>3
<1>3. Latest(S) = CHOOSE x \in S : P(x)
  BY DEF Latest
<1> HIDE DEF P
<1>4. QED BY <1>1, <1>2, <1>3

\* Among places there is an earliest one.
LEMMA EarliestExists ==
    ASSUME PlanOK, NEW S \in SUBSET Places, S # {}
    PROVE  Earliest(S) \in S /\ \A r \in S \ {Earliest(S)} : Precedes(Earliest(S), r)
<1> DEFINE F == {q[1] : q \in S}
<1>1. \A q \in S : q \in Place2 /\ q = <<q[1], q[2]>> /\ q[1] \in 1..Len(plan)
  BY PlaceFacts
<1>2. F \subseteq 1..Len(plan) /\ F # {} /\ Len(plan) \in Nat
  BY <1>1 DEF PlanOK
<1> HIDE DEF F
<1>3. PICK f \in F : \A g \in F : f <= g
  BY <1>2, LeastOf
<1> DEFINE L == {q[2] : q \in {r \in S : r[1] = f}}
<1>4. PICK m \in Nat : L \subseteq 1..m
  <2>1. \A q \in S : q[1] = f => q[2] \in 1..Len(plan[f].file)
    BY PlaceFacts
  <2>2. PICK q \in S : q[1] = f
    BY <1>3 DEF F
  <2>3. Len(plan[f].file) \in Nat
    BY <2>2, PlaceFacts
  <2>4. L \subseteq 1..Len(plan[f].file)
    BY <2>1
  <2>5. QED BY <2>3, <2>4
<1>5. L # {}
  BY <1>3 DEF F
<1> HIDE DEF L
<1>6. PICK l \in L : \A k \in L : l <= k
  BY <1>4, <1>5, LeastOf
<1>7. PICK q \in S : q[1] = f /\ q[2] = l
  BY <1>6 DEF L
<1>8. ASSUME NEW r \in S \ {q}
      PROVE  Precedes(q, r)
  <2>1. r \in Place2 /\ q \in Place2 /\ r = <<r[1], r[2]>> /\ q = <<q[1], q[2]>>
    BY <1>1
  <2>2. f <= r[1]
    BY <1>3 DEF F
  <2>3. r[1] = f => l <= r[2]
    BY <1>6 DEF L
  <2>4. ~(r[1] = q[1] /\ r[2] = q[2])
    BY <2>1
  <2>5. r[1] \in Nat /\ r[2] \in Nat /\ f \in Nat /\ l \in Nat
    BY <1>7, <2>1 DEF Place2
  <2>6. QED BY <1>7, <2>2, <2>3, <2>4, <2>5 DEF Precedes
<1>9. Earliest(S) = q
  BY <1>1, <1>8, EarliestIs
<1>10. QED BY <1>8, <1>9

\* What mentions a vendor makes it one that is mentioned, no later than there.
LEMMA OriginFacts ==
    ASSUME PlanOK, NEW q \in Places, NEW id, Mentions(q, id)
    PROVE  /\ id \in Mentioned
           /\ Origin(id) \in Places /\ Mentions(Origin(id), id)
           /\ ~Precedes(q, Origin(id))
<1>1. id \in Mentioned
  <2>1. CASE Says(q, "VENDOR", 2) /\ Atoi(Arg(q, 2)) = id
    BY <2>1 DEF Ids, Mentioned
  <2>2. CASE OwnId(q) /\ Number[Arg(q, 4)] = id
    BY <2>2 DEF Ids, Mentioned, OwnId
  <2>3. CASE Opener(q) \in DOMAIN Number /\ Number[Opener(q)] = id
    BY <2>3 DEF Ids, Mentioned
  <2>4. QED BY <2>1, <2>2, <2>3 DEF Mentions
<1> DEFINE S == {r \in Places : Mentions(r, id)}
<1>2. S \in SUBSET Places /\ q \in S
  OBVIOUS
<1>3. Origin(id) = Earliest(S)
  BY DEF Origin
<1> HIDE DEF S
<1>4. Earliest(S) \in S /\ \A r \in S \ {Earliest(S)} : Precedes(Earliest(S), r)
  BY <1>2, EarliestExists
<1>5. ~Precedes(q, Origin(id))
  <2>1. CASE q = Earliest(S)
    BY <1>3, <2>1, PlaceFacts, Order
  <2>2. CASE q # Earliest(S)
    <3>1. Precedes(Earliest(S), q)
      BY <1>2, <1>4, <2>2
    <3>2. q \in Place2 /\ Earliest(S) \in Place2
      BY <1>2, <1>4, PlaceFacts
    <3>3. QED BY <1>3, <3>1, <3>2, Order
  <2>3. QED BY <2>1, <2>2
<1>6. QED BY <1>1, <1>3, <1>4, <1>5 DEF S

\* The first mention is where no earlier one is.
LEMMA OriginIs ==
    ASSUME PlanOK, NEW q \in Places, NEW id, Mentions(q, id),
           \A r \in Places : Mentions(r, id) => ~Precedes(r, q)
    PROVE  Origin(id) = q
<1> DEFINE S == {r \in Places : Mentions(r, id)}
<1>1. \A r \in S : r \in Place2
  BY PlaceFacts
<1>2. \A r \in S \ {q} : Precedes(q, r)
  <2>1. TAKE r \in S \ {q}
  <2>2. ~Precedes(r, q) /\ r \in Place2 /\ q \in Place2 /\ r # q
    BY <1>1
  <2>3. QED BY <2>2, Order
<1>3. QED BY <1>1, <1>2, EarliestIs DEF Origin

BlockLine(q) == Says(q, "BEGIN-VENDOR", 1) \/ Says(q, "END-VENDOR", 0)

\* The vendor of the block that q is in.
BlockOwner(q) ==
    IF ~InBlock(q) THEN 0
    ELSE IF Opener(q) \in DOMAIN Number THEN Number[Opener(q)]
    ELSE IdOf(Opener(q), Latest(Blocks(q)))

\* No block is open at the beginning of a file.
LEMMA FirstLine ==
    ASSUME PlanOK, NEW f
    PROVE  BlockOwner(<<f, 1>>) = 0
<1>1. Blocks(<<f, 1>>) = {}
  <2>1. SUFFICES ASSUME NEW r \in Places, r[1] = f, Precedes(r, <<f, 1>>)
                 PROVE  FALSE
    BY DEF Blocks
  <2>2. r[1] \in Nat /\ r[2] \in Nat \ {0}
    BY PlaceFacts DEF PlanOK
  <2>3. r[1] < f \/ r[2] < 1
    BY <2>1 DEF Precedes
  <2>4. ~(r[2] < 1) /\ ~(r[1] < f)
    BY <2>1, <2>2
  <2>5. QED BY <2>3, <2>4
<1>2. QED BY <1>1 DEF BlockOwner, InBlock

\* Behind a line of a block, and behind any other.
LEMMA NextLine ==
    ASSUME PlanOK, NEW f \in Nat, NEW l \in Nat, <<f, l>> \in Places
    PROVE  /\ Says(<<f, l>>, "BEGIN-VENDOR", 1) =>
                BlockOwner(<<f, l + 1>>) =
                  IF Arg(<<f, l>>, 1) \in DOMAIN Number THEN Number[Arg(<<f, l>>, 1)]
                  ELSE IdOf(Arg(<<f, l>>, 1), <<f, l>>)
           /\ Says(<<f, l>>, "END-VENDOR", 0) => BlockOwner(<<f, l + 1>>) = 0
           /\ ~BlockLine(<<f, l>>) => BlockOwner(<<f, l + 1>>) = BlockOwner(<<f, l>>)
<1> DEFINE q == <<f, l>>
           n == <<f, l + 1>>
<1>1. \A r \in Places : r[1] = f => (Precedes(r, n) <=> Precedes(r, q) \/ r = q)
  <2>1. TAKE r \in Places
  <2>2. HAVE r[1] = f
  <2>3. r = <<r[1], r[2]>> /\ r[2] \in Nat
    BY PlaceFacts
  <2>4. Precedes(r, n) <=> r[2] < l + 1
    BY <2>2 DEF Precedes
  <2>5. Precedes(r, q) <=> r[2] < l
    BY <2>2 DEF Precedes
  <2>6. r = q <=> r[2] = l
    BY <2>2, <2>3
  <2>7. r[2] < l + 1 <=> r[2] < l \/ r[2] = l
    BY <2>3
  <2>8. QED BY <2>4, <2>5, <2>6, <2>7
<1>2. Blocks(n) = {r \in Places : r[1] = f /\ Precedes(r, n) /\ BlockLine(r)}
  BY DEF Blocks, BlockLine
<1>3. Blocks(q) = {r \in Places : r[1] = f /\ Precedes(r, q) /\ BlockLine(r)}
  BY DEF Blocks, BlockLine
<1>4. CASE ~BlockLine(q)
  <2>1. Blocks(n) = Blocks(q)
    BY <1>1, <1>2, <1>3, <1>4
  <2>2. BlockOwner(n) = BlockOwner(q)
    BY <2>1 DEF BlockOwner, InBlock, Opener
  <2>3. QED BY <1>4, <2>2 DEF BlockLine
<1>5. CASE BlockLine(q)
  <2>1. q[1] = f /\ q \in Place2
    BY DEF Place2
  <2>2. q \in Blocks(n) /\ Blocks(n) \subseteq Places
    BY <1>1, <1>2, <1>5, <2>1
  <2>3. \A r \in Blocks(n) \ {q} : Precedes(r, q)
    BY <1>1, <1>2
  <2>4. Blocks(n) \in SUBSET Place2
    BY <2>2, PlaceFacts
  <2>5. Latest(Blocks(n)) = q
    <3>1. PICK S : S = Blocks(n)
      OBVIOUS
    <3>2. Latest(S) = q
      BY <2>2, <2>3, <2>4, <3>1, LatestIs
    <3>3. QED BY <3>1, <3>2
  <2>6. InBlock(n) <=> Says(q, "BEGIN-VENDOR", 1)
    BY <2>2, <2>5 DEF InBlock
  <2>7. Opener(n) = Arg(q, 1)
    BY <2>5 DEF Opener
  <2>8. Says(q, "END-VENDOR", 0) => ~Says(q, "BEGIN-VENDOR", 1)
    BY DEF Says
  <2>9. QED BY <1>5, <2>5, <2>6, <2>7, <2>8 DEF BlockOwner
<1>6. QED BY <1>4, <1>5

LEMMA OwnerIs ==
    ASSUME NEW q
    PROVE  Owner(q) = IF OwnId(q) THEN Number[Arg(q, 4)] ELSE BlockOwner(q)
  BY DEF Owner, BlockOwner

\* The vendors that are mentioned before q under this name, and the first of some.
Namesakes(token, q) == {id \in Mentioned : /\ Precedes(Origin(id), q) /\ NameOf(id) # Null
                                           /\ Lowered(NameOf(id)) = Lowered(token)}
Foremost(S, o) == CHOOSE id \in S : \A i \in S \ {id} : Precedes(o[id], o[i])
Origins == [id \in Mentioned |-> Origin(id)]

LEMMA IdOfIs ==
    \A token, q : IdOf(token, q) = IF Namesakes(token, q) = {} THEN 0
                                  ELSE Foremost(Namesakes(token, q), Origins)
<1> SUFFICES ASSUME NEW token, NEW q
             PROVE  IdOf(token, q) = IF Namesakes(token, q) = {} THEN 0
                                     ELSE Foremost(Namesakes(token, q), Origins)
  OBVIOUS
<1> DEFINE N == Namesakes(token, q)
<1>1. \A id \in N : Origins[id] = Origin(id)
  BY DEF Origins, Namesakes
<1>2. IdOf(token, q) = IF N = {} THEN 0
                       ELSE CHOOSE id \in N : \A o \in N \ {id} : Precedes(Origin(id), Origin(o))
  BY DEF IdOf, Namesakes
<1> HIDE DEF N
<1>3. Foremost(N, Origins) = CHOOSE id \in N : \A o \in N \ {id} : Precedes(Origin(id), Origin(o))
  BY <1>1 DEF Foremost
<1>4. IdOf(token, q) = IF N = {} THEN 0 ELSE Foremost(N, Origins)
  BY <1>2, <1>3
<1>5. QED BY <1>4 DEF N

\* All this depends on the directives alone.
LEMMA FilesStay ==
    ASSUME UNCHANGED plan
    PROVE  /\ Places' = Places
           /\ \A q, k, n : Says(q, k, n)' = Says(q, k, n)
           /\ \A q, i : Arg(q, i)' = Arg(q, i)
           /\ \A q : Blocks(q)' = Blocks(q) /\ BlockOwner(q)' = BlockOwner(q)
           /\ \A q, id : Mentions(q, id)' = Mentions(q, id)
           /\ Mentioned' = Mentioned
           /\ \A id : Origin(id)' = Origin(id) /\ NameOf(id)' = NameOf(id)
           /\ \A q : Owner(q)' = Owner(q)
           /\ Due' = Due /\ \A q : DueName(q)' = DueName(q)
           /\ \A n, f : Defined(n, f)' = Defined(n, f)
           /\ Unacceptable' = Unacceptable
<1>1. Places' = Places
  BY DEF Places
<1>2. \A q, k, n : Says(q, k, n)' = Says(q, k, n)
  BY DEF Says
<1>3. \A q, i : Arg(q, i)' = Arg(q, i)
  BY DEF Arg
<1>4. \A q : Blocks(q)' = Blocks(q)
  BY <1>1, <1>2 DEF Blocks
<1>5. \A q : InBlock(q)' = InBlock(q) /\ Opener(q)' = Opener(q)
  BY <1>2, <1>3, <1>4 DEF InBlock, Opener, Arg
<1>6. \A q : OwnId(q)' = OwnId(q)
  BY <1>2, <1>3 DEF OwnId
<1>7. \A q, id : Mentions(q, id)' = Mentions(q, id)
  BY <1>2, <1>3, <1>5, <1>6 DEF Mentions
<1>8. Ids' = Ids
  BY <1>1, <1>2, <1>3 DEF Ids
<1>9. Mentioned' = Mentioned
  BY <1>1, <1>7, <1>8 DEF Mentioned
<1>10. \A id : Origin(id)' = Origin(id)
  <2>1. \A id : {q \in Places : Mentions(q, id)}' = {q \in Places : Mentions(q, id)}
    BY <1>1, <1>7
  <2>2. QED BY <2>1 DEF Origin
<1>11. \A id : NameOf(id)' = NameOf(id)
  BY <1>2, <1>3, <1>10 DEF NameOf, Says, Arg
<1>12. \A token, q : IdOf(token, q)' = IdOf(token, q)
  <2>1. \A token, q : Namesakes(token, q)' = Namesakes(token, q)
    BY <1>9, <1>10, <1>11 DEF Namesakes
  <2>2. Origins' = Origins
    BY <1>9, <1>10 DEF Origins
  <2>3. (\A token, q : IdOf(token, q) = IF Namesakes(token, q) = {} THEN 0
                                       ELSE Foremost(Namesakes(token, q), Origins))'
    BY IdOfIs, PTL
  <2>4. QED BY <2>1, <2>2, <2>3, IdOfIs
<1>13. \A q : BlockOwner(q)' = BlockOwner(q)
  BY <1>4, <1>5, <1>12 DEF BlockOwner
<1>14. \A q : Owner(q)' = Owner(q)
  BY <1>3, <1>4, <1>5, <1>6, <1>12 DEF Owner
<1>15. Due' = Due
  BY <1>1, <1>2, <1>10, <1>14 DEF Due
<1>16. \A q : DueName(q)' = DueName(q)
  BY <1>3, <1>11, <1>14 DEF DueName
<1>17. \A n, f : Defined(n, f)' = Defined(n, f)
  BY DEF Defined
<1>18. Unacceptable' = Unacceptable
  BY <1>15, <1>16, <1>17 DEF Unacceptable
<1>19. QED BY <1>1, <1>2, <1>3, <1>4, <1>7, <1>9, <1>10, <1>11, <1>13, <1>14, <1>15, <1>16, <1>17, <1>18

\* Among the places of a file there is a latest one.
LEMMA LatestExists ==
    ASSUME PlanOK, NEW S \in SUBSET Places, S # {}, NEW f, \A q \in S : q[1] = f
    PROVE  Latest(S) \in S
<1>1. \A q \in S : q \in Place2 /\ q = <<f, q[2]>> /\ q[2] \in 1..Len(plan[f].file)
  BY PlaceFacts
<1>2. PICK m \in Nat : \A q \in S : q[2] \in 1..m
  <2>1. PICK q \in S : TRUE
    OBVIOUS
  <2>2. Len(plan[f].file) \in Nat
    BY <2>1, PlaceFacts
  <2>3. QED BY <1>1, <2>2
<1> DEFINE L == {m + 1 - q[2] : q \in S}
<1>3. L \in SUBSET (1..m) /\ L # {}
  BY <1>2
<1> HIDE DEF L
<1>4. PICK l \in L : \A k \in L : l <= k
  BY <1>3, LeastOf
<1>5. PICK q \in S : l = m + 1 - q[2]
  BY <1>4 DEF L
<1>6. \A r \in S \ {q} : Precedes(r, q)
  <2>1. TAKE r \in S \ {q}
  <2>2. r[2] \in Nat /\ q[2] \in Nat /\ r[2] # q[2] /\ r[1] = q[1]
    BY <1>1
  <2>3. l <= m + 1 - r[2]
    BY <1>4 DEF L
  <2>4. r[2] < q[2]
    BY <1>5, <2>2, <2>3
  <2>5. QED BY <2>2, <2>4 DEF Precedes
<1>7. S \in SUBSET Place2
  BY <1>1
<1>8. Latest(S) = q
  BY <1>6, <1>7, LatestIs
<1>9. QED BY <1>8

\* A line mentions one vendor.
LEMMA MentionsOne ==
    ASSUME NEW q, NEW id, NEW o, Mentions(q, id), Mentions(q, o)
    PROVE  id = o
<1>1. ~(Says(q, "VENDOR", 2) /\ Says(q, "ATTRIBUTE", 3))
  BY DEF Says
<1>2. QED BY <1>1 DEF Mentions

LEMMA MentionedFacts ==
    ASSUME PlanOK, NEW id \in Mentioned
    PROVE  Origin(id) \in Places /\ Origin(id) \in Place2 /\ Mentions(Origin(id), id)
<1>1. PICK q \in Places : Mentions(q, id)
  BY DEF Mentioned
<1>2. Origin(id) \in Places /\ Mentions(Origin(id), id)
  BY <1>1, OriginFacts
<1>3. QED BY <1>2, PlaceFacts

\* Some of the vendors that are mentioned have a first one.
LEMMA ForemostIs ==
    ASSUME PlanOK, NEW S \in SUBSET Mentioned, NEW id \in S,
           \A o \in S \ {id} : Precedes(Origin(id), Origin(o))
    PROVE  Foremost(S, Origins) = id
<1> DEFINE P(x) == \A o \in S \ {x} : Precedes(Origins[x], Origins[o])
<1>1. \A x \in S : Origins[x] = Origin(x) /\ Origin(x) \in Place2
  BY MentionedFacts DEF Origins
<1>2. P(id)
  BY <1>1
<1>3. \A x \in S : P(x) => x = id
  <2>1. TAKE x \in S
  <2>2. HAVE P(x)
  <2>3. ASSUME x # id PROVE FALSE
    <3>1. Precedes(Origin(x), Origin(id)) /\ Precedes(Origin(id), Origin(x))
      BY <1>1, <2>2, <2>3
    <3>2. Origin(x) \in Place2 /\ Origin(id) \in Place2
      BY <1>1
    <3>3. QED BY <3>1, <3>2, Order
  <2>4. QED BY <2>3
<1>4. Foremost(S, Origins) = CHOOSE x \in S : P(x)
  BY DEF Foremost
<1> HIDE DEF P
<1>5. QED BY <1>2, <1>3, <1>4

LEMMA ForemostIn ==
    ASSUME PlanOK, NEW S \in SUBSET Mentioned, S # {}
    PROVE  Foremost(S, Origins) \in S
<1> DEFINE O == {Origin(x) : x \in S}
<1>1. \A x \in S : Origin(x) \in Places /\ Origin(x) \in Place2 /\ Mentions(Origin(x), x)
  BY MentionedFacts
<1>2. O \in SUBSET Places /\ O # {}
  BY <1>1
<1> HIDE DEF O
<1>3. Earliest(O) \in O /\ \A r \in O \ {Earliest(O)} : Precedes(Earliest(O), r)
  BY <1>2, EarliestExists
<1>4. PICK id \in S : Origin(id) = Earliest(O)
  BY <1>3 DEF O
<1>5. \A o \in S \ {id} : Precedes(Origin(id), Origin(o))
  <2>1. TAKE o \in S \ {id}
  <2>2. Origin(o) \in O
    BY DEF O
  <2>3. Origin(o) # Origin(id)
    BY <1>1, MentionsOne
  <2>4. QED BY <1>3, <1>4, <2>2, <2>3
<1>6. Foremost(S, Origins) = id
  BY <1>5, ForemostIs
<1>7. QED BY <1>6

-----------------------------------------------------------------------------
(* What was read                                                           *)

DefOf(q) == [code |-> Atoi(Arg(q, 2)), type |-> TypeOf(Arg(q, 3)), name |-> Arg(q, 1)]

\* From n on, the definitions of a list are those of the places S, in their order.
Lists(defs, n, s, S) ==
    /\ s \in Seq(S)
    /\ Len(defs) = n + Len(s)
    /\ \A k \in 1..Len(s) : defs[n + k] = DefOf(s[k])
    /\ \A q \in S : \E k \in 1..Len(s) : s[k] = q
    /\ \A j, k \in 1..Len(s) : j < k => Precedes(s[j], s[k])

LEMMA ListsNothing ==
    ASSUME NEW defs, NEW n \in Nat, Len(defs) = n
    PROVE  Lists(defs, n, <<>>, {})
<1>1. <<>> \in Seq({}) /\ Len(<<>>) = 0
  OBVIOUS
<1>2. QED BY <1>1 DEF Lists

LEMMA ListsAppend ==
    ASSUME NEW D, NEW defs \in Seq(D), NEW n \in Nat, NEW S, NEW s, Lists(defs, n, s, S),
           NEW q, DefOf(q) \in D, \A r \in S : Precedes(r, q)
    PROVE  Lists(Append(defs, DefOf(q)), n, Append(s, q), S \cup {q})
<1> DEFINE T   == S \cup {q}
           t   == Append(s, q)
           all == Append(defs, DefOf(q))
<1>1. s \in Seq(S) /\ s \in Seq(T) /\ Len(s) \in Nat /\ Len(defs) = n + Len(s)
  BY DEF Lists
<1>2. /\ t \in Seq(T) /\ Len(t) = Len(s) + 1 /\ t[Len(s) + 1] = q
      /\ \A k \in 1..Len(s) : t[k] = s[k] /\ s[k] \in S
  BY <1>1
<1>3. /\ Len(all) = n + Len(s) + 1 /\ all[n + Len(s) + 1] = DefOf(q)
      /\ \A k \in 1..Len(s) : all[n + k] = defs[n + k]
  BY <1>1
<1> HIDE DEF t, all
<1>4. \A k \in 1..Len(s) + 1 : k \in 1..Len(s) \/ k = Len(s) + 1
  BY <1>1
<1>5. \A k \in 1..Len(t) : all[n + k] = DefOf(t[k])
  <2>1. TAKE k \in 1..Len(t)
  <2>2. CASE k = Len(s) + 1
    BY <1>1, <1>2, <1>3, <2>2
  <2>3. CASE k \in 1..Len(s)
    BY <1>2, <1>3, <2>3 DEF Lists
  <2>4. QED BY <1>2, <1>4, <2>2, <2>3
<1>6. \A r \in T : \E k \in 1..Len(t) : t[k] = r
  <2>1. TAKE r \in T
  <2>2. CASE r = q
    BY <1>1, <1>2, <2>2
  <2>3. CASE r \in S
    <3>1. PICK k \in 1..Len(s) : s[k] = r
      BY <2>3 DEF Lists
    <3>2. k \in 1..Len(t) /\ t[k] = r
      BY <1>1, <1>2, <3>1
    <3>3. QED BY <3>2
  <2>4. QED BY <2>2, <2>3
<1>7. \A j, k \in 1..Len(t) : j < k => Precedes(t[j], t[k])
  <2>1. TAKE j, k \in 1..Len(t)
  <2>2. HAVE j < k
  <2>3. j \in 1..Len(s)
    BY <1>1, <1>2, <2>2
  <2>4. CASE k = Len(s) + 1
    BY <1>2, <2>3, <2>4
  <2>5. CASE k \in 1..Len(s)
    <3>1. Precedes(s[j], s[k])
      BY <2>2, <2>3, <2>5 DEF Lists
    <3>2. QED BY <1>2, <2>3, <2>5, <3>1
  <2>6. QED BY <1>2, <1>4, <2>4, <2>5
<1>8. Len(all) = n + Len(t)
  BY <1>1, <1>2, <1>3
<1>9. Lists(all, n, t, T)
  BY <1>2, <1>5, <1>6, <1>7, <1>8 DEF Lists
<1>10. QED BY <1>9 DEF all, t

\* The vendors are those that the places R mention, under their first names and in the order
\* of their first mentions.
VendorsAre(vs, R) ==
    /\ \A i \in 1..Len(vs) : /\ Origin(vs[i].id) \in R
                             /\ Mentions(Origin(vs[i].id), vs[i].id)
                             /\ vs[i].name = NameOf(vs[i].id)
    /\ \A q \in R : \A id : Mentions(q, id) => \E i \in 1..Len(vs) : vs[i].id = id
    /\ \A i, j \in 1..Len(vs) : i < j => Precedes(Origin(vs[i].id), Origin(vs[j].id))

\* A vendor has the attributes that the places R give it, but the number 0 none.
Carries(v, R) ==
    IF v.id = 0 THEN v.attrs = <<>> ELSE \E s : Lists(v.attrs, 0, s, AttributesOf(v.id) \cap R)

Standards(defs, R) ==
    /\ \A i \in 1..Len(Builtin) : defs[i] = Builtin[i]
    /\ \E s : Lists(defs, Len(Builtin), s, AttributesOf(0) \cap R)

\* The dictionary is what the places R say.
DictIs(d, R) ==
    /\ Standards(d.attrs, R)
    /\ VendorsAre(d.vendors, R)
    /\ \A i \in 1..Len(d.vendors) : Carries(d.vendors[i], R)

Passed(q) == {r \in Places : Precedes(r, q)}

\* An attribute of a vendor comes no earlier than the vendor's first mention.
LEMMA OwnerMentioned ==
    ASSUME PlanOK, NEW q \in Places, Says(q, "ATTRIBUTE", 3), Owner(q) # 0
    PROVE  /\ Origin(Owner(q)) \in Places /\ Mentions(Origin(Owner(q)), Owner(q))
           /\ ~Precedes(q, Origin(Owner(q)))
           /\ Mentions(q, Owner(q)) \/ Precedes(Origin(Owner(q)), q)
<1>1. CASE Mentions(q, Owner(q))
  <2>1. PICK id : id = Owner(q)
    OBVIOUS
  <2>2. Origin(id) \in Places /\ Mentions(Origin(id), id) /\ ~Precedes(q, Origin(id))
    BY <1>1, <2>1, OriginFacts
  <2>3. QED BY <1>1, <2>1, <2>2
<1>2. CASE ~Mentions(q, Owner(q))
  <2> DEFINE b == Latest(Blocks(q))
             N == Namesakes(Opener(q), b)
  <2>1. /\ ~OwnId(q) /\ InBlock(q) /\ Opener(q) \notin DOMAIN Number
        /\ Owner(q) = IdOf(Opener(q), b)
    BY <1>2 DEF Owner, Mentions
  <2>2. N # {} /\ Owner(q) = Foremost(N, Origins)
    BY <2>1, IdOfIs
  <2>3. b \in Blocks(q)
    <3>1. Blocks(q) \in SUBSET Places /\ Blocks(q) # {} /\ \A r \in Blocks(q) : r[1] = q[1]
      BY <2>1 DEF Blocks, InBlock
    <3>2. QED BY <3>1, LatestExists
  <2>4. b \in Places /\ Precedes(b, q) /\ b \in Place2 /\ q \in Place2
    BY <2>3, PlaceFacts DEF Blocks
  <2> HIDE DEF N
  <2>5. Owner(q) \in N
    <3>1. N \in SUBSET Mentioned
      BY DEF N, Namesakes
    <3>2. QED BY <2>2, <3>1, ForemostIn
  <2>6. Owner(q) \in Mentioned /\ Precedes(Origin(Owner(q)), b)
    BY <2>5 DEF N, Namesakes
  <2>7. PICK r \in Places : Mentions(r, Owner(q))
    BY <2>6 DEF Mentioned
  <2>8. PICK id : id = Owner(q)
    OBVIOUS
  <2>9. Origin(id) \in Places /\ Mentions(Origin(id), id)
    BY <2>7, <2>8, OriginFacts
  <2>10. Origin(id) \in Place2 /\ Precedes(Origin(id), b)
    BY <2>6, <2>8, <2>9, PlaceFacts
  <2>11. Precedes(Origin(id), q)
    BY <2>4, <2>10, Order
  <2>12. ~Precedes(q, Origin(id))
    BY <2>4, <2>10, <2>11, Order
  <2>13. QED BY <2>8, <2>9, <2>11, <2>12
<1>3. QED BY <1>1, <1>2

-----------------------------------------------------------------------------
(* What the places before a line say                                       *)

LEMMA BeforeNext ==
    ASSUME PlanOK, NEW f \in Nat, NEW l \in Nat, <<f, l>> \in Places
    PROVE  Passed(<<f, l + 1>>) = Passed(<<f, l>>) \cup {<<f, l>>}
<1>1. ASSUME NEW r \in Places
      PROVE  Precedes(r, <<f, l + 1>>) <=> Precedes(r, <<f, l>>) \/ r = <<f, l>>
  <2>1. r = <<r[1], r[2]>> /\ r[1] \in Nat /\ r[2] \in Nat
    BY PlaceFacts DEF Place2
  <2>2. r = <<f, l>> <=> r[1] = f /\ r[2] = l
    BY <2>1
  <2>3. r[2] < l + 1 <=> r[2] < l \/ r[2] = l
    BY <2>1
  <2>4. QED BY <2>2, <2>3 DEF Precedes
<1>2. QED BY <1>1 DEF Passed

\* Behind the last line of a file, and behind a directive without one.
LEMMA BeforeOver ==
    ASSUME PlanOK, NEW f \in Nat, NEW l \in Nat, \A r \in Places : r[1] = f => r[2] < l
    PROVE  Passed(<<f + 1, 1>>) = Passed(<<f, l>>)
<1>1. ASSUME NEW r \in Places
      PROVE  Precedes(r, <<f + 1, 1>>) <=> Precedes(r, <<f, l>>)
  <2>1. r[1] \in Nat /\ r[2] \in Nat /\ r[2] >= 1
    <3>1. r[2] \in 1..Len(plan[r[1]].file) /\ Len(plan[r[1]].file) \in Nat /\ r \in Place2
      BY PlaceFacts
    <3>2. QED BY <3>1 DEF Place2
  <2>2. Precedes(r, <<f + 1, 1>>) <=> r[1] < f + 1
    BY <2>1 DEF Precedes
  <2>3. Precedes(r, <<f, l>>) <=> r[1] < f \/ r[1] = f
    BY <2>1 DEF Precedes
  <2>4. r[1] < f + 1 <=> r[1] < f \/ r[1] = f
    BY <2>1
  <2>5. QED BY <2>2, <2>3, <2>4
<1>2. QED BY <1>1 DEF Passed

LEMMA Transitive ==
    ASSUME PlanOK, NEW q \in Places, NEW r \in Passed(q), NEW o \in Places, Precedes(o, r)
    PROVE  o \in Passed(q)
<1>1. r \in Places /\ Precedes(r, q)
  BY DEF Passed
<1>2. o \in Place2 /\ r \in Place2 /\ q \in Place2
  BY <1>1, PlaceFacts
<1>3. QED BY <1>1, <1>2, Order DEF Passed

\* A vendor that no line mentioned was given no attribute.
LEMMA NoneYet ==
    ASSUME PlanOK, NEW q \in Places, NEW id, id # 0, \A r \in Passed(q) : ~Mentions(r, id)
    PROVE  AttributesOf(id) \cap Passed(q) = {}
<1> SUFFICES ASSUME NEW r \in Passed(q), r \in AttributesOf(id)
             PROVE  FALSE
  OBVIOUS
<1>1. r \in Places /\ Says(r, "ATTRIBUTE", 3) /\ Owner(r) = id
  BY DEF AttributesOf
<1>2. Origin(id) \in Places /\ Mentions(Origin(id), id) /\ Precedes(Origin(id), r)
  BY <1>1, OwnerMentioned
<1>3. PICK o \in Places : o = Origin(id)
  BY <1>2
<1>4. o \in Passed(q)
  BY <1>2, <1>3, Transitive
<1>5. QED BY <1>2, <1>3, <1>4

LEMMA FirstMention ==
    ASSUME PlanOK, NEW q \in Places, NEW id, Mentions(q, id),
           \A r \in Passed(q) : ~Mentions(r, id)
    PROVE  Origin(id) = q /\ NameOf(id) = IF Says(q, "VENDOR", 2) THEN Arg(q, 1) ELSE Null
<1>1. Origin(id) = q
  BY OriginIs DEF Passed
<1>2. QED BY <1>1 DEF NameOf

LEMMA CarriesStill ==
    ASSUME NEW v, NEW R, NEW q, Carries(v, R), v.id = 0 \/ q \notin AttributesOf(v.id)
    PROVE  Carries(v, R \cup {q})
<1>1. CASE v.id = 0
  BY <1>1 DEF Carries
<1>2. CASE v.id # 0
  <2>1. AttributesOf(v.id) \cap (R \cup {q}) = AttributesOf(v.id) \cap R
    BY <1>2
  <2>2. QED BY <1>2, <2>1 DEF Carries
<1>3. QED BY <1>1, <1>2

LEMMA StandardsStill ==
    ASSUME NEW defs, NEW R, NEW q, Standards(defs, R), q \notin AttributesOf(0)
    PROVE  Standards(defs, R \cup {q})
<1>1. AttributesOf(0) \cap (R \cup {q}) = AttributesOf(0) \cap R
  OBVIOUS
<1>2. QED BY <1>1 DEF Standards

\* A line that mentions no vendor but those that are known brings in none.
LEMMA NoneIntroduced ==
    ASSUME NEW vs, NEW R, NEW q, VendorsAre(vs, R),
           \A id : Mentions(q, id) => \E i \in 1..Len(vs) : vs[i].id = id
    PROVE  VendorsAre(vs, R \cup {q})
  BY DEF VendorsAre

LEMMA OneIntroduced ==
    ASSUME PlanOK, NEW q \in Places, NEW vs \in Seq(AVendor), VendorsAre(vs, Passed(q)),
           \A i \in 1..Len(vs) : Carries(vs[i], Passed(q)),
           NEW id \in Nat, Mentions(q, id), \A i \in 1..Len(vs) : vs[i].id # id,
           NEW name, name = IF Says(q, "VENDOR", 2) THEN Arg(q, 1) ELSE Null
    PROVE  LET ws == Append(vs, NewVendor(id, name))
           IN  /\ VendorsAre(ws, Passed(q) \cup {q})
               /\ \A i \in 1..Len(ws) : Carries(ws[i], Passed(q))
<1> DEFINE v  == NewVendor(id, name)
           ws == Append(vs, v)
           R  == Passed(q)
<1>1. v.id = id /\ v.name = name /\ v.attrs = <<>>
  BY DEF NewVendor
<1> HIDE DEF v
<1>2. /\ Len(vs) \in Nat /\ Len(ws) = Len(vs) + 1 /\ ws[Len(vs) + 1] = v
      /\ \A i \in 1..Len(vs) : ws[i] = vs[i]
  OBVIOUS
<1> HIDE DEF ws
<1>3. \A i \in 1..Len(ws) : i \in 1..Len(vs) \/ i = Len(vs) + 1
  BY <1>2
<1>4. \A r \in R : ~Mentions(r, id)
  BY DEF VendorsAre
<1>5. Origin(id) = q /\ NameOf(id) = name
  BY <1>4, FirstMention
<1>6. R \subseteq Places /\ \A r \in R : Precedes(r, q)
  BY DEF Passed
<1>7. VendorsAre(ws, R \cup {q})
  <2>1. \A i \in 1..Len(ws) : /\ Origin(ws[i].id) \in R \cup {q}
                              /\ Mentions(Origin(ws[i].id), ws[i].id)
                              /\ ws[i].name = NameOf(ws[i].id)
    <3>1. TAKE i \in 1..Len(ws)
    <3>2. CASE i \in 1..Len(vs)
      BY <1>2, <3>2 DEF VendorsAre
    <3>3. CASE i = Len(vs) + 1
      BY <1>1, <1>2, <1>5, <3>3
    <3>4. QED BY <1>3, <3>2, <3>3
  <2>2. \A r \in R \cup {q} : \A o : Mentions(r, o) => \E i \in 1..Len(ws) : ws[i].id = o
    <3>1. TAKE r \in R \cup {q}
    <3>2. TAKE o
    <3>3. HAVE Mentions(r, o)
    <3>4. CASE r = q
      <4>1. o = id
        BY <3>3, <3>4, MentionsOne
      <4>2. Len(vs) + 1 \in 1..Len(ws)
        BY <1>2
      <4>3. QED BY <4>1, <4>2, <1>1, <1>2
    <3>5. CASE r \in R
      <4>1. PICK i \in 1..Len(vs) : vs[i].id = o
        BY <3>3, <3>5 DEF VendorsAre
      <4>2. i \in 1..Len(ws) /\ ws[i].id = o
        BY <1>2, <4>1
      <4>3. QED BY <4>2
    <3>6. QED BY <3>4, <3>5
  <2>3. \A i, j \in 1..Len(ws) : i < j => Precedes(Origin(ws[i].id), Origin(ws[j].id))
    <3>1. TAKE i, j \in 1..Len(ws)
    <3>2. HAVE i < j
    <3>3. i \in 1..Len(vs)
      BY <1>2, <3>2
    <3>4. CASE j \in 1..Len(vs)
      <4>1. Precedes(Origin(vs[i].id), Origin(vs[j].id))
        BY <3>2, <3>3, <3>4 DEF VendorsAre
      <4>2. QED BY <1>2, <3>3, <3>4, <4>1
    <3>5. CASE j = Len(vs) + 1
      <4>1. Origin(vs[i].id) \in R
        BY <3>3 DEF VendorsAre
      <4>2. QED BY <1>1, <1>2, <1>5, <1>6, <3>3, <3>5, <4>1
    <3>6. QED BY <1>3, <3>4, <3>5
  <2>4. QED BY <2>1, <2>2, <2>3 DEF VendorsAre
<1>8. \A i \in 1..Len(ws) : Carries(ws[i], R)
  <2>1. TAKE i \in 1..Len(ws)
  <2>2. CASE i \in 1..Len(vs)
    BY <1>2, <2>2
  <2>3. CASE i = Len(vs) + 1
    <3>1. Carries(v, R)
      <4>1. CASE id = 0
        BY <1>1, <4>1 DEF Carries
      <4>2. CASE id # 0
        <5>1. AttributesOf(id) \cap R = {}
          BY <4>2, <1>4, NoneYet
        <5>2. Lists(<<>>, 0, <<>>, {})
          BY ListsNothing
        <5>3. QED BY <1>1, <4>2, <5>1, <5>2 DEF Carries
      <4>3. QED BY <4>1, <4>2
    <3>2. QED BY <1>2, <2>3, <3>1
  <2>4. QED BY <1>3, <2>2, <2>3
<1>9. QED BY <1>7, <1>8 DEF ws, v

-----------------------------------------------------------------------------
(* What a line adds                                                        *)

\* An attribute line mentions its owner, or no vendor.
LEMMA MentionsOwner ==
    ASSUME NEW q, Says(q, "ATTRIBUTE", 3), NEW id, Mentions(q, id)
    PROVE  id = Owner(q) /\ id # 0
<1>1. ~Says(q, "VENDOR", 2)
  BY DEF Says
<1>2. QED BY <1>1 DEF Mentions, Owner

LEMMA LineSkipped ==
    ASSUME NEW q, NEW d, NEW R, DictIs(d, R),
           ~Says(q, "ATTRIBUTE", 3), ~Says(q, "VENDOR", 2)
    PROVE  DictIs(d, R \cup {q})
<1>1. \A id : ~Mentions(q, id) /\ q \notin AttributesOf(id)
  BY DEF Mentions, AttributesOf
<1>2. Standards(d.attrs, R \cup {q})
  BY <1>1, StandardsStill DEF DictIs
<1>3. VendorsAre(d.vendors, R \cup {q})
  BY <1>1, NoneIntroduced DEF DictIs
<1>4. \A i \in 1..Len(d.vendors) : Carries(d.vendors[i], R \cup {q})
  BY <1>1, CarriesStill DEF DictIs
<1>5. QED BY <1>2, <1>3, <1>4 DEF DictIs

\* get_or_create_vendor, for a line that mentions the vendor or one that is known.
LEMMA VendorThere ==
    ASSUME PlanOK, DictOK, NEW q \in Places, DictIs(dict, Passed(q)),
           NEW id \in Nat, Mentions(q, id) \/ Known(id), \A o : Mentions(q, o) => o = id,
           NEW name \in Token \cup {Null},
           Mentions(q, id) => name = IF Says(q, "VENDOR", 2) THEN Arg(q, 1) ELSE Null
    PROVE  /\ VendorsAre(WithVendor(id, name), Passed(q) \cup {q})
           /\ \A i \in 1..Len(WithVendor(id, name)) : Carries(WithVendor(id, name)[i], Passed(q))
<1>1. dict.vendors \in Seq(AVendor)
  BY DEF DictOK, Dictionary, Vendors, AVendor
<1>2. PICK vs \in Seq(AVendor) : vs = dict.vendors
  BY <1>1
<1>3. VendorsAre(vs, Passed(q)) /\ \A i \in 1..Len(vs) : Carries(vs[i], Passed(q))
  BY <1>2 DEF DictIs
<1>4. Known(id) <=> \E i \in 1..Len(vs) : vs[i].id = id
  BY <1>2 DEF Known
<1>5. CASE Known(id)
  <2>1. WithVendor(id, name) = vs
    BY <1>2, <1>5 DEF WithVendor
  <2>2. VendorsAre(vs, Passed(q) \cup {q})
    BY <1>3, <1>4, <1>5, NoneIntroduced
  <2>3. QED BY <1>3, <2>1, <2>2
<1>6. CASE ~Known(id)
  <2>1. WithVendor(id, name) = Append(vs, NewVendor(id, name))
    BY <1>2, <1>6 DEF WithVendor
  <2>2. LET ws == Append(vs, NewVendor(id, name))
        IN  /\ VendorsAre(ws, Passed(q) \cup {q})
            /\ \A i \in 1..Len(ws) : Carries(ws[i], Passed(q))
    BY <1>3, <1>4, <1>6, OneIntroduced
  <2>3. QED BY <2>1, <2>2
<1>7. QED BY <1>5, <1>6

LEMMA VendorLine ==
    ASSUME PlanOK, DictOK, NEW q \in Places, Says(q, "VENDOR", 2), DictIs(dict, Passed(q)),
           NEW d, d.attrs = dict.attrs, d.vendors = WithVendor(Atoi(Arg(q, 2)), Arg(q, 1))
    PROVE  DictIs(d, Passed(q) \cup {q})
<1>1. PICK id \in Nat : id = Atoi(Arg(q, 2))
  BY AtoiNat
<1>2. PICK name \in Token : name = Arg(q, 1)
  <2>1. plan[q[1]].file[q[2]].args \in Seq(Token)
    BY PlaceFacts
  <2>2. Len(plan[q[1]].file[q[2]].args) >= 2
    BY DEF Says
  <2>3. QED BY <2>1, <2>2 DEF Arg
<1>3. \A o : Mentions(q, o) <=> o = id
  BY <1>1 DEF Mentions, Says
<1>4. /\ VendorsAre(d.vendors, Passed(q) \cup {q})
      /\ \A i \in 1..Len(d.vendors) : Carries(d.vendors[i], Passed(q))
  BY <1>1, <1>2, <1>3, VendorThere
<1>5. \A id_1 : q \notin AttributesOf(id_1)
  BY DEF AttributesOf, Says
<1>6. \A i \in 1..Len(d.vendors) : Carries(d.vendors[i], Passed(q) \cup {q})
  BY <1>4, <1>5, CarriesStill
<1>7. Standards(d.attrs, Passed(q) \cup {q})
  BY <1>5, StandardsStill DEF DictIs
<1>8. QED BY <1>4, <1>6, <1>7 DEF DictIs

LEMMA DefOfType ==
    ASSUME PlanOK, NEW q \in Places, Says(q, "ATTRIBUTE", 3)
    PROVE  DefOf(q) \in Def
<1>1. plan[q[1]].file[q[2]].args \in Seq(Token)
  BY PlaceFacts
<1>2. Len(plan[q[1]].file[q[2]].args) >= 3
  BY DEF Says
<1>3. Arg(q, 1) \in Token
  BY <1>1, <1>2 DEF Arg
<1>4. QED BY <1>3, AtoiNat, TypeOfType DEF DefOf, Def

LEMMA StandardLine ==
    ASSUME PlanOK, DictOK, NEW q \in Places, Says(q, "ATTRIBUTE", 3), Owner(q) = 0,
           DictIs(dict, Passed(q)),
           NEW d, d.attrs = Append(dict.attrs, DefOf(q)), d.vendors = dict.vendors
    PROVE  DictIs(d, Passed(q) \cup {q})
<1>1. \A id : ~Mentions(q, id)
  BY MentionsOwner
<1>2. VendorsAre(d.vendors, Passed(q) \cup {q})
  BY <1>1, NoneIntroduced DEF DictIs
<1>3. \A i \in 1..Len(d.vendors) : Carries(d.vendors[i], Passed(q) \cup {q})
  <2>1. TAKE i \in 1..Len(d.vendors)
  <2>2. d.vendors[i].id = 0 \/ q \notin AttributesOf(d.vendors[i].id)
    BY DEF AttributesOf
  <2>3. QED BY <2>2, CarriesStill DEF DictIs
<1>4. Standards(d.attrs, Passed(q) \cup {q})
  <2>1. dict.attrs \in Seq(Def) /\ Len(Builtin) \in Nat
    BY TextAssumption DEF DictOK, Dictionary
  <2> DEFINE S == AttributesOf(0) \cap Passed(q)
  <2>2. PICK s : Lists(dict.attrs, Len(Builtin), s, S)
    BY DEF DictIs, Standards
  <2>3. \A r \in S : Precedes(r, q)
    BY DEF Passed
  <2>4. DefOf(q) \in Def
    BY DefOfType
  <2>5. q \in AttributesOf(0)
    BY DEF AttributesOf
  <2>6. AttributesOf(0) \cap (Passed(q) \cup {q}) = S \cup {q}
    BY <2>5
  <2> HIDE DEF S
  <2>7. Lists(d.attrs, Len(Builtin), Append(s, q), S \cup {q})
    BY <2>1, <2>2, <2>3, <2>4, ListsAppend
  <2>8. \A i \in 1..Len(Builtin) : d.attrs[i] = Builtin[i]
    <3>1. TAKE i \in 1..Len(Builtin)
    <3>2. Len(dict.attrs) = Len(Builtin) + Len(s) /\ Len(s) \in Nat
      BY <2>2 DEF Lists
    <3>3. i \in 1..Len(dict.attrs)
      BY <2>1, <3>2
    <3>4. d.attrs[i] = dict.attrs[i]
      BY <2>1, <3>3
    <3>5. QED BY <3>4 DEF DictIs, Standards
  <2>9. QED BY <2>6, <2>7, <2>8 DEF Standards
<1>5. QED BY <1>2, <1>3, <1>4 DEF DictIs

LEMMA Renamed ==
    ASSUME NEW vs, NEW ws, NEW R, VendorsAre(vs, R), Len(ws) = Len(vs),
           \A i \in 1..Len(vs) : ws[i].id = vs[i].id /\ ws[i].name = vs[i].name
    PROVE  VendorsAre(ws, R)
<1> DEFINE N == 1..Len(vs)
<1>1. /\ \A i \in N : /\ Origin(vs[i].id) \in R
                      /\ Mentions(Origin(vs[i].id), vs[i].id)
                      /\ vs[i].name = NameOf(vs[i].id)
      /\ \A q \in R : \A id : Mentions(q, id) => \E i \in N : vs[i].id = id
      /\ \A i, j \in N : i < j => Precedes(Origin(vs[i].id), Origin(vs[j].id))
      /\ 1..Len(ws) = N
  BY DEF VendorsAre
<1>2. \A i \in N : ws[i].id = vs[i].id /\ ws[i].name = vs[i].name
  OBVIOUS
<1> HIDE DEF N
<1>3. \A q \in R : \A id : Mentions(q, id) => \E i \in N : ws[i].id = id
  BY <1>1, <1>2
<1>4. \A i, j \in N : i < j => Precedes(Origin(ws[i].id), Origin(ws[j].id))
  BY <1>1, <1>2
<1>5. \A i \in N : /\ Origin(ws[i].id) \in R
                   /\ Mentions(Origin(ws[i].id), ws[i].id)
                   /\ ws[i].name = NameOf(ws[i].id)
  BY <1>1, <1>2
<1>6. QED BY <1>1, <1>3, <1>4, <1>5 DEF VendorsAre

LEMMA VendorAttributeLine ==
    ASSUME PlanOK, DictOK, NEW q \in Places, Says(q, "ATTRIBUTE", 3), NEW id \in Nat, id = Owner(q),
           id # 0, DictIs(dict, Passed(q)),
           NEW all, all = WithVendor(id, Null),
           NEW d, d.attrs = dict.attrs,
           d.vendors = [all EXCEPT ![Place(all, id)].attrs = Append(@, DefOf(q))]
    PROVE  DictIs(d, Passed(q) \cup {q})
<1>1. Mentions(q, id) \/ Known(id)
  <2>1. SUFFICES ASSUME ~Mentions(q, id)
                 PROVE  Known(id)
    OBVIOUS
  <2>2. Origin(id) \in Places /\ Mentions(Origin(id), id) /\ Precedes(Origin(id), q)
    BY <2>1, OwnerMentioned
  <2>3. Origin(id) \in Passed(q)
    BY <2>2 DEF Passed
  <2>4. \E i \in 1..Len(dict.vendors) : dict.vendors[i].id = id
    BY <2>2, <2>3 DEF DictIs, VendorsAre
  <2>5. DOMAIN dict.vendors = 1..Len(dict.vendors)
    BY DEF DictOK, Dictionary, Vendors
  <2>6. QED BY <2>4, <2>5 DEF Known
<1>2. \A o : Mentions(q, o) => o = id
  BY MentionsOwner
<1>3. ~Says(q, "VENDOR", 2)
  BY DEF Says
<1>4. /\ VendorsAre(all, Passed(q) \cup {q})
      /\ \A i \in 1..Len(all) : Carries(all[i], Passed(q))
  BY <1>1, <1>2, <1>3, VendorThere
<1>5. /\ all \in Seq(AVendor) /\ Unique(all)
      /\ \E i \in DOMAIN all : all[i].id = id
  BY WithVendorFacts DEF DictOK
<1>6. PICK k \in 1..Len(all) : k = Place(all, id) /\ all[k].id = id
  BY <1>5 DEF Place
<1>7. PICK new : new = d.vendors
  OBVIOUS
<1>8. all[k] \in AVendor
  BY <1>5, <1>6
<1>9. PICK as : as = Append(all[k].attrs, DefOf(q))
  OBVIOUS
<1>10. /\ Len(new) = Len(all) /\ new[k].id = id /\ new[k].name = all[k].name /\ new[k].attrs = as
       /\ \A i \in 1..Len(all) : i # k => new[i] = all[i]
  <2>1. PICK more : more = [all[k] EXCEPT !.attrs = as]
    OBVIOUS
  <2>2. new = [all EXCEPT ![k] = more]
    BY <1>6, <1>7, <1>9, <2>1
  <2>3. more.id = id /\ more.name = all[k].name /\ more.attrs = as
    BY <1>6, <1>8, <2>1 DEF AVendor
  <2>4. DOMAIN all = 1..Len(all) /\ Len(all) \in Nat /\ DOMAIN new = DOMAIN all
    BY <1>5, <2>2
  <2>5. new \in Seq({new[i] : i \in DOMAIN new}) /\ Len(new) = Len(all)
    <3>1. all \in Seq(AVendor) /\ new = [i \in 1..Len(all) |-> IF i = k THEN more ELSE all[i]]
      BY <1>5, <2>2, <2>4
    <3>2. QED BY <2>4, <3>1
  <2>6. QED BY <2>2, <2>3, <2>4, <2>5
<1>11. VendorsAre(new, Passed(q) \cup {q})
  <2>1. \A i \in 1..Len(all) : new[i].id = all[i].id /\ new[i].name = all[i].name
    BY <1>6, <1>10
  <2>2. QED BY <1>4, <1>10, <2>1, Renamed
<1>12. \A i \in 1..Len(new) : Carries(new[i], Passed(q) \cup {q})
  <2>1. TAKE i \in 1..Len(new)
  <2>2. CASE i # k
    <3>1. all[i].id # id
      BY <1>5, <1>6, <1>10, <2>2 DEF Unique
    <3>2. q \notin AttributesOf(all[i].id)
      BY <3>1 DEF AttributesOf
    <3>3. Carries(all[i], Passed(q) \cup {q})
      BY <1>4, <1>10, <3>2, CarriesStill
    <3>4. QED BY <1>10, <2>2, <3>3
  <2>3. CASE i = k
    <3> DEFINE S == AttributesOf(id) \cap Passed(q)
    <3>1. PICK s : Lists(all[k].attrs, 0, s, S)
      BY <1>4, <1>6 DEF Carries
    <3>2. \A r \in S : Precedes(r, q)
      BY DEF Passed
    <3>3. AttributesOf(id) \cap (Passed(q) \cup {q}) = S \cup {q}
      BY DEF AttributesOf
    <3> HIDE DEF S
    <3>4. all[k].attrs \in Seq(Def) /\ DefOf(q) \in Def
      BY <1>8, DefOfType DEF AVendor
    <3>5. Lists(as, 0, Append(s, q), S \cup {q})
      BY <1>9, <3>1, <3>2, <3>4, ListsAppend
    <3>6. QED BY <1>10, <2>3, <3>3, <3>5 DEF Carries
  <2>4. QED BY <2>2, <2>3
<1>13. Standards(d.attrs, Passed(q) \cup {q})
  <2>1. q \notin AttributesOf(0)
    BY DEF AttributesOf
  <2>2. QED BY <2>1, StandardsStill DEF DictIs
<1>14. QED BY <1>7, <1>11, <1>12, <1>13 DEF DictIs

-----------------------------------------------------------------------------
(* The dictionary is what has been read                                    *)

\* The scan over the vendors takes the one that the file means.
LEMMA MeantIs ==
    ASSUME PlanOK, DictOK, NEW q \in Places, VendorsAre(dict.vendors, Passed(q)), NEW token
    PROVE  FirstId(Meant(token)) = IdOf(token, q)
<1> DEFINE N == Namesakes(token, q)
           M == Meant(token)
<1>1. dict.vendors \in Seq(AVendor)
  BY DEF DictOK, Dictionary, Vendors, AVendor
<1>2. PICK vs \in Seq(AVendor) : vs = dict.vendors
  BY <1>1
<1>3. M = {i \in 1..Len(vs) : vs[i].name # Null /\ Lowered(vs[i].name) = Lowered(token)}
  BY <1>2 DEF Meant, Nameless
<1>4. VendorsAre(vs, Passed(q)) /\ Len(vs) \in Nat
  BY <1>2
<1>5. \A i \in M : vs[i].id \in N
  <2>1. TAKE i \in M
  <2>2. PICK id : id = vs[i].id
    OBVIOUS
  <2>3. Origin(id) \in Passed(q) /\ Mentions(Origin(id), id) /\ vs[i].name = NameOf(id)
    BY <1>3, <1>4, <2>2 DEF VendorsAre
  <2>4. Origin(id) \in Places /\ Precedes(Origin(id), q)
    BY <2>3 DEF Passed
  <2>5. id \in Mentioned
    BY <2>3, <2>4, OriginFacts
  <2>6. QED BY <1>3, <2>2, <2>3, <2>4, <2>5 DEF Namesakes
<1>6. \A id \in N : \E i \in M : vs[i].id = id
  <2>1. TAKE id \in N
  <2>2. /\ id \in Mentioned /\ Precedes(Origin(id), q) /\ NameOf(id) # Null
        /\ Lowered(NameOf(id)) = Lowered(token)
    BY DEF Namesakes
  <2>3. Origin(id) \in Places /\ Mentions(Origin(id), id)
    BY <2>2, MentionedFacts
  <2>4. PICK i \in 1..Len(vs) : vs[i].id = id
    BY <1>4, <2>2, <2>3 DEF VendorsAre, Passed
  <2>5. vs[i].name = NameOf(id)
    BY <1>4, <2>4 DEF VendorsAre
  <2>6. QED BY <1>3, <2>2, <2>4, <2>5
<1>7. M \in SUBSET (1..Len(vs)) /\ N \in SUBSET Mentioned
  BY <1>3 DEF Namesakes
<1>8. FirstId(M) = IF M = {} THEN 0 ELSE vs[CHOOSE i \in M : \A j \in M : i <= j].id
  BY <1>2 DEF FirstId
<1>9. IdOf(token, q) = IF N = {} THEN 0 ELSE Foremost(N, Origins)
  BY IdOfIs
<1> HIDE DEF M, N
<1>10. CASE M = {}
  BY <1>6, <1>8, <1>9, <1>10 DEF M
<1>11. CASE M # {}
  <2>1. PICK m \in M : \A j \in M : m <= j
    BY <1>4, <1>7, <1>11, LeastOf
  <2>2. (CHOOSE i \in M : \A j \in M : i <= j) = m
    <3>1. \A i \in M : (\A j \in M : i <= j) => i = m
      BY <1>4, <1>7, <2>1
    <3>2. QED BY <2>1, <3>1
  <2>3. FirstId(M) = vs[m].id
    BY <1>8, <1>11, <2>2
  <2>4. vs[m].id \in N
    BY <1>5
  <2>5. \A o \in N \ {vs[m].id} : Precedes(Origin(vs[m].id), Origin(o))
    <3>1. TAKE o \in N \ {vs[m].id}
    <3>2. PICK i \in M : vs[i].id = o
      BY <1>6
    <3>3. i # m /\ m <= i /\ i \in 1..Len(vs) /\ m \in 1..Len(vs)
      BY <1>7, <2>1, <3>2
    <3>4. m < i
      BY <3>3
    <3>5. QED BY <1>4, <3>2, <3>3, <3>4 DEF VendorsAre
  <2>6. Foremost(N, Origins) = vs[m].id
    <3>1. PICK id \in N : id = vs[m].id
      BY <2>4
    <3>2. Foremost(N, Origins) = id
      BY <1>7, <2>5, <3>1, ForemostIs
    <3>3. QED BY <3>1, <3>2
  <2>7. QED BY <1>9, <1>11, <2>3, <2>4, <2>6 DEF M
<1>12. QED BY <1>10, <1>11 DEF M

Loading == stage \in {"loading", "registering"}

\* The first place that was not read yet.
Where == <<at, IF Loading THEN line ELSE 1>>

\* Inductive, as long as no vendor was mistaken: the dictionary is what has been read, and
\* the vendor is that of the block.
LInv ==
    /\ Loading => Directive.kind = "radius_dict" /\ Directive.file # Null
    /\ stage = "registering" => line > Len(Directive.file)
    /\ ~strayed /\ stage \notin {"refused", "crashed"} =>
         /\ DictIs(Base, Passed(Where))
         /\ stage = "loading" => current = BlockOwner(Where)

LEMMA LoadingFacts ==
    ASSUME CInv, LInv, stage = "loading", line <= Len(Directive.file)
    PROVE  /\ PlanOK /\ <<at, line>> \in Places /\ Where = <<at, line>>
           /\ at \in Nat /\ line \in Nat /\ at \in 1..Len(plan)
           /\ \A key, n : Says(<<at, line>>, key, n) <=> Line.key = key /\ Len(Args) >= n
           /\ \A i : Arg(<<at, line>>, i) = Args[i]
<1>1. PlanOK /\ Where = <<at, line>>
  BY DEF CInv, PlanOK, Where, Loading
<1>2. at \in 1..Len(plan) /\ at \in Nat /\ line \in Nat \ {0} /\ Directive.file \in Seq(ALine)
  BY DEF CInv
<1>3. line \in 1..Len(plan[at].file) /\ plan[at].kind = "radius_dict" /\ plan[at].file # Null
  <2>1. Len(Directive.file) \in Nat
    BY <1>2
  <2>2. QED BY <1>2, <2>1 DEF LInv, Loading, Directive
<1>4. PICK f \in 1..Len(plan) : f = at
  BY <1>2
<1>5. PICK l \in 1..Len(plan[f].file) : l = line
  BY <1>3, <1>4
<1>6. <<f, l>> \in Places
  BY <1>1, <1>3, <1>4, PlaceIs
<1>7. \A key, n : Says(<<at, line>>, key, n) <=> Line.key = key /\ Len(Args) >= n
  BY DEF Says, Line, Args, Directive
<1>8. \A i : Arg(<<at, line>>, i) = Args[i]
  BY DEF Arg, Line, Args, Directive
<1>9. QED BY <1>1, <1>2, <1>4, <1>5, <1>6, <1>7, <1>8

LEMMA DictStays ==
    ASSUME UNCHANGED plan
    PROVE  /\ \A q : Passed(q)' = Passed(q)
           /\ \A id : AttributesOf(id)' = AttributesOf(id)
           /\ \A q : DefOf(q)' = DefOf(q)
           /\ \A defs, n, s, S : Lists(defs, n, s, S)' = Lists(defs, n, s, S)
           /\ \A vs, R : VendorsAre(vs, R)' = VendorsAre(vs, R)
           /\ \A d, R : DictIs(d, R)' = DictIs(d, R)
<1>1. \A q : Passed(q)' = Passed(q)
  BY FilesStay DEF Passed
<1>2. \A id : AttributesOf(id)' = AttributesOf(id)
  BY FilesStay DEF AttributesOf
<1>3. \A q : DefOf(q)' = DefOf(q)
  BY FilesStay DEF DefOf
<1>4. \A defs, n, s, S : Lists(defs, n, s, S)' = Lists(defs, n, s, S)
  BY <1>3 DEF Lists
<1>5. \A vs, R : VendorsAre(vs, R)' = VendorsAre(vs, R)
  BY FilesStay DEF VendorsAre
<1>6. \A v, R : Carries(v, R)' = Carries(v, R)
  BY <1>2, <1>4 DEF Carries
<1>7. \A defs, R : Standards(defs, R)' = Standards(defs, R)
  BY <1>2, <1>4 DEF Standards
<1>8. \A d, R : DictIs(d, R)' = DictIs(d, R)
  BY <1>5, <1>6, <1>7 DEF DictIs
<1>9. QED BY <1>1, <1>2, <1>3, <1>4, <1>5, <1>8

\* A line keeps it if it adds to the dictionary what it says.
LEMMA LineLInv ==
    ASSUME CInv, LInv, NEW key, NEW n, Load(key, n), DictOK', NEW d, d = dict', NEW c, c = current',
           ~strayed' =>
             /\ ~strayed
             /\ DictIs(dict, Passed(<<at, line>>)) /\ current = BlockOwner(<<at, line>>) =>
                  /\ DictIs(d, Passed(<<at, line>>) \cup {<<at, line>>})
                  /\ c = BlockOwner(<<at, line + 1>>)
    PROVE  LInv'
<1>1. /\ stage = "loading" /\ line <= Len(Directive.file) /\ line' = line + 1
      /\ UNCHANGED <<plan, stage, at, next, registered>>
  BY DEF Load
<1>2. /\ PlanOK /\ <<at, line>> \in Places /\ Where = <<at, line>>
      /\ at \in Nat /\ line \in Nat
  BY <1>1, LoadingFacts
<1>3. PICK f \in Nat, l \in Nat : f = at /\ l = line
  BY <1>2
<1>4. Where' = <<f, l + 1>>
  BY <1>1, <1>3 DEF Where, Loading
<1>5. Base' = d /\ DictOK /\ Base = dict
  BY <1>1, NullAssumption DEF Base, DictOK, CInv
<1>6. Passed(<<f, l + 1>>) = Passed(<<f, l>>) \cup {<<f, l>>}
  BY <1>2, <1>3, BeforeNext
<1>7. ASSUME ~strayed'
      PROVE  DictIs(d, Passed(<<f, l + 1>>)) /\ c = BlockOwner(<<f, l + 1>>)
  <2>1. DictIs(dict, Passed(<<at, line>>)) /\ current = BlockOwner(<<at, line>>)
    BY <1>1, <1>2, <1>5, <1>7 DEF LInv
  <2>2. QED BY <1>3, <1>6, <1>7, <2>1
<1>8. ASSUME ~strayed'
      PROVE  DictIs(Base, Passed(Where))' /\ (current = BlockOwner(Where))'
  <2>1. PICK w : w = <<f, l + 1>>
    OBVIOUS
  <2>2. PICK R : R = Passed(w)
    OBVIOUS
  <2>3. Passed(w)' = R /\ BlockOwner(w)' = BlockOwner(w)
    BY <1>1, <2>2, DictStays, FilesStay
  <2>4. DictIs(d, R)' /\ c = BlockOwner(w)
    BY <1>1, <1>7, <1>8, <2>1, <2>2, DictStays
  <2>5. QED BY <1>4, <1>5, <2>1, <2>3, <2>4
<1>9. Directive' = Directive /\ Loading' /\ stage' = "loading"
  BY <1>1 DEF Directive, Loading
<1>10. Directive.kind = "radius_dict" /\ Directive.file # Null
  BY <1>1 DEF LInv, Loading
<1>11. QED BY <1>8, <1>9, <1>10 DEF LInv

LEMMA NotOf ==
    ASSUME CInv, LInv, NEW key, NEW n, Load(key, n)
    PROVE  /\ PlanOK /\ DictOK /\ <<at, line>> \in Places /\ at \in Nat /\ line \in Nat
           /\ stage = "loading" /\ plan' = plan
           /\ \A k, m : Says(<<at, line>>, k, m) <=> key = k /\ Len(Args) >= m
           /\ \A i : Arg(<<at, line>>, i) = Args[i]
           /\ BlockLine(<<at, line>>) <=> \/ key = "BEGIN-VENDOR" /\ Len(Args) >= 1
                                          \/ key = "END-VENDOR" /\ Len(Args) >= 0
<1>1. /\ stage = "loading" /\ line <= Len(Directive.file) /\ Line.key = key /\ plan' = plan
  BY DEF Load
<1>2. QED BY <1>1, LoadingFacts DEF CInv, BlockLine

LEMMA DeclareVendorLInv ==
    ASSUME CInv, LInv, DeclareVendor
    PROVE  LInv'
<1>1. /\ Load("VENDOR", 2) /\ UNCHANGED <<current, strayed>>
      /\ dict' = [dict EXCEPT !.vendors = WithVendor(Atoi(Args[2]), Args[1])]
  BY DEF DeclareVendor
<1>2. DictOK'
  BY <1>1, DeclareVendorInv, LoadFacts DEF CInv
<1>3. PICK d, c : d = dict' /\ c = current'
  OBVIOUS
<1>4. PICK q : q = <<at, line>>
  OBVIOUS
<1>5. /\ PlanOK /\ DictOK /\ q \in Places /\ at \in Nat /\ line \in Nat
      /\ Says(q, "VENDOR", 2) /\ ~BlockLine(q)
      /\ Arg(q, 1) = Args[1] /\ Arg(q, 2) = Args[2]
  <2>1. Len(Args) >= 2
    BY <1>1 DEF Load
  <2>2. QED BY <1>1, <1>4, <2>1, NotOf
<1>6. d.attrs = dict.attrs /\ d.vendors = WithVendor(Atoi(Arg(q, 2)), Arg(q, 1))
  BY <1>1, <1>3, <1>5 DEF DictOK, Dictionary
<1>7. DictIs(dict, Passed(q)) => DictIs(d, Passed(q) \cup {q})
  BY <1>5, <1>6, VendorLine
<1>8. BlockOwner(<<at, line + 1>>) = BlockOwner(q)
  BY <1>4, <1>5, NextLine
<1>9. QED BY <1>1, <1>2, <1>3, <1>4, <1>7, <1>8, LineLInv

\* How many tokens a line must have.
LEMMA NeedsAre ==
    /\ "VENDOR" \in DOMAIN Needs /\ Needs["VENDOR"] = 2
    /\ "ATTRIBUTE" \in DOMAIN Needs /\ Needs["ATTRIBUTE"] = 3
    /\ "BEGIN-VENDOR" \in DOMAIN Needs /\ Needs["BEGIN-VENDOR"] = 1
    /\ "END-VENDOR" \in DOMAIN Needs /\ Needs["END-VENDOR"] = 0
  BY DEF Needs

LEMMA BlockLInv ==
    ASSUME CInv, LInv, BeginById \/ BeginByName \/ EndVendor \/ Ignored
    PROVE  LInv'
<1>1. PICK q : q = <<at, line>>
  OBVIOUS
<1>2. PICK d, c : d = dict' /\ c = current'
  OBVIOUS
<1>3. ASSUME NEW key, NEW n, Load(key, n)
      PROVE  dict' = dict => DictOK'
  BY <1>3, NotOf DEF DictOK
<1>4. CASE BeginById
  <2>1. /\ Load("BEGIN-VENDOR", 1) /\ Args[1] \in DOMAIN Number /\ c = Number[Args[1]]
        /\ UNCHANGED <<dict, strayed>> /\ d = dict
    BY <1>2, <1>4 DEF BeginById
  <2>2. Len(Args) >= 1
    BY <2>1 DEF Load
  <2>3. /\ PlanOK /\ q \in Places /\ at \in Nat /\ line \in Nat /\ Arg(q, 1) = Args[1]
        /\ Says(q, "BEGIN-VENDOR", 1) /\ ~Says(q, "ATTRIBUTE", 3) /\ ~Says(q, "VENDOR", 2)
    BY <1>1, <2>1, <2>2, NotOf
  <2>4. BlockOwner(<<at, line + 1>>) = c
    BY <1>1, <2>1, <2>3, NextLine
  <2>5. DictIs(dict, Passed(q)) => DictIs(d, Passed(q) \cup {q})
    BY <2>1, <2>3, LineSkipped
  <2>6. QED BY <1>1, <1>2, <1>3, <2>1, <2>4, <2>5, LineLInv
<1>5. CASE BeginByName
  <2>1. PICK found \in Scanned(Args[1]) :
          /\ Load("BEGIN-VENDOR", 1) /\ Args[1] \notin DOMAIN Number /\ c = FirstId(found)
          /\ strayed' = (strayed \/ FirstId(found) # FirstId(Meant(Args[1])))
          /\ dict' = dict /\ d = dict
    BY <1>2, <1>5 DEF BeginByName
  <2>2. Len(Args) >= 1
    BY <2>1 DEF Load
  <2>3. /\ PlanOK /\ DictOK /\ q \in Places /\ at \in Nat /\ line \in Nat /\ Arg(q, 1) = Args[1]
        /\ Says(q, "BEGIN-VENDOR", 1) /\ ~Says(q, "ATTRIBUTE", 3) /\ ~Says(q, "VENDOR", 2)
    BY <1>1, <2>1, <2>2, NotOf
  <2>4. BlockOwner(<<at, line + 1>>) = IdOf(Args[1], q)
    BY <1>1, <2>1, <2>3, NextLine
  <2>5. ASSUME ~strayed', DictIs(dict, Passed(q))
        PROVE  c = IdOf(Args[1], q)
    <3>1. FirstId(found) = FirstId(Meant(Args[1]))
      BY <2>1, <2>5, Zenon
    <3>2. PICK token : token = Args[1]
      OBVIOUS
    <3>3. FirstId(Meant(token)) = IdOf(token, q)
      BY <2>3, <2>5, MeantIs DEF DictIs
    <3>4. QED BY <2>1, <3>1, <3>2, <3>3
  <2>6. DictIs(dict, Passed(q)) => DictIs(d, Passed(q) \cup {q})
    BY <2>1, <2>3, LineSkipped
  <2>7. ~strayed' => ~strayed
    BY <2>1, Zenon
  <2>8. QED BY <1>1, <1>2, <1>3, <2>1, <2>4, <2>5, <2>6, <2>7, LineLInv
<1>6. CASE EndVendor
  <2>1. Load("END-VENDOR", 0) /\ c = 0 /\ UNCHANGED <<dict, strayed>> /\ d = dict
    BY <1>2, <1>6 DEF EndVendor
  <2>2. Len(Args) >= 0
    BY <2>1 DEF Load
  <2>3. /\ PlanOK /\ q \in Places /\ at \in Nat /\ line \in Nat
        /\ Says(q, "END-VENDOR", 0) /\ ~Says(q, "ATTRIBUTE", 3) /\ ~Says(q, "VENDOR", 2)
    BY <1>1, <2>1, <2>2, NotOf
  <2>4. BlockOwner(<<at, line + 1>>) = 0
    BY <1>1, <2>3, NextLine
  <2>5. DictIs(dict, Passed(q)) => DictIs(d, Passed(q) \cup {q})
    BY <2>1, <2>3, LineSkipped
  <2>6. QED BY <1>1, <1>2, <1>3, <2>1, <2>4, <2>5, LineLInv
<1>7. CASE Ignored
  <2>1. /\ Load(Line.key, 0) /\ (Line.key \in DOMAIN Needs => Len(Args) < Needs[Line.key])
        /\ c = current /\ UNCHANGED <<dict, strayed>> /\ d = dict
    BY <1>2, <1>7 DEF Ignored
  <2>2. PICK key : key = Line.key
    OBVIOUS
  <2>3. Len(Args) \in Nat
    BY <2>1, LoadFacts
  <2>4. /\ key = "VENDOR" => Len(Args) < 2
        /\ key = "ATTRIBUTE" => Len(Args) < 3
        /\ key = "BEGIN-VENDOR" => Len(Args) < 1
        /\ key = "END-VENDOR" => Len(Args) < 0
    BY <2>1, <2>2, NeedsAre
  <2>5. /\ ~(key = "VENDOR" /\ Len(Args) >= 2) /\ ~(key = "ATTRIBUTE" /\ Len(Args) >= 3)
        /\ ~(key = "BEGIN-VENDOR" /\ Len(Args) >= 1) /\ ~(key = "END-VENDOR" /\ Len(Args) >= 0)
    BY <2>3, <2>4
  <2>6. /\ PlanOK /\ q \in Places /\ at \in Nat /\ line \in Nat
        /\ ~Says(q, "ATTRIBUTE", 3) /\ ~Says(q, "VENDOR", 2) /\ ~BlockLine(q)
    BY <1>1, <2>1, <2>2, <2>5, NotOf
  <2>7. BlockOwner(<<at, line + 1>>) = BlockOwner(q)
    BY <1>1, <2>6, NextLine
  <2>8. DictIs(dict, Passed(q)) => DictIs(d, Passed(q) \cup {q})
    BY <2>1, <2>6, LineSkipped
  <2>9. QED BY <1>1, <1>2, <1>3, <2>1, <2>7, <2>8, LineLInv
<1>8. QED BY <1>4, <1>5, <1>6, <1>7

LEMMA AttributeLInv ==
    ASSUME CInv, LInv, Attribute
    PROVE  LInv'
<1> DEFINE own == AttributeVendor
           def == [code |-> Atoi(Args[2]), type |-> TypeOf(Args[3]), name |-> Args[1]]
<1>1. /\ Load("ATTRIBUTE", 3) /\ UNCHANGED <<current, strayed>>
      /\ dict' = IF own = 0 THEN [dict EXCEPT !.attrs = Append(@, def)]
                 ELSE [dict EXCEPT !.vendors =
                         [WithVendor(own, Null) EXCEPT
                            ![Place(WithVendor(own, Null), own)].attrs = Append(@, def)]]
  BY DEF Attribute
<1>2. DictOK' /\ own \in Nat
  BY <1>1, AttributeInv, LoadFacts, TextAssumption DEF CInv, AttributeVendor
<1>3. PICK d, c, q : d = dict' /\ c = current' /\ q = <<at, line>>
  OBVIOUS
<1>4. Len(Args) >= 3
  BY <1>1 DEF Load
<1>5. /\ PlanOK /\ DictOK /\ q \in Places /\ at \in Nat /\ line \in Nat
      /\ Says(q, "ATTRIBUTE", 3) /\ ~BlockLine(q)
      /\ Says(q, "ATTRIBUTE", 4) <=> Len(Args) >= 4
      /\ \A i : Arg(q, i) = Args[i]
  <2>1. /\ PlanOK /\ DictOK /\ q \in Places /\ at \in Nat /\ line \in Nat /\ ~BlockLine(q)
        /\ \A k, m : Says(q, k, m) <=> "ATTRIBUTE" = k /\ Len(Args) >= m
        /\ \A i : Arg(q, i) = Args[i]
    BY <1>1, <1>3, NotOf
  <2>2. QED BY <1>4, <2>1
<1>6. PICK id \in Nat : id = own
  BY <1>2
<1>7. current = BlockOwner(q) => id = Owner(q)
  BY <1>5, <1>6, OwnerIs DEF AttributeVendor, OwnId
<1>8. def = DefOf(q)
  BY <1>5 DEF DefOf
<1> HIDE DEF own, def
<1>9. PICK all : all = WithVendor(id, Null)
  OBVIOUS
<1>10. d = IF id = 0 THEN [dict EXCEPT !.attrs = Append(dict.attrs, DefOf(q))]
           ELSE [dict EXCEPT !.vendors = [all EXCEPT ![Place(all, id)].attrs = Append(@, DefOf(q))]]
  BY <1>1, <1>3, <1>6, <1>8, <1>9
<1>11. ASSUME DictIs(dict, Passed(q)), current = BlockOwner(q)
       PROVE  DictIs(d, Passed(q) \cup {q})
  <2>1. CASE id = 0
    <3>1. d.attrs = Append(dict.attrs, DefOf(q)) /\ d.vendors = dict.vendors
      BY <1>5, <1>10, <2>1 DEF DictOK, Dictionary
    <3>2. QED BY <1>5, <1>7, <1>11, <2>1, <3>1, StandardLine
  <2>2. CASE id # 0
    <3>1. PICK new : new = [all EXCEPT ![Place(all, id)].attrs = Append(@, DefOf(q))]
      OBVIOUS
    <3>2. d.attrs = dict.attrs /\ d.vendors = new
      BY <1>5, <1>10, <2>2, <3>1 DEF DictOK, Dictionary
    <3>3. QED BY <1>5, <1>7, <1>9, <1>11, <2>2, <3>1, <3>2, VendorAttributeLine
  <2>3. QED BY <2>1, <2>2
<1>12. BlockOwner(<<at, line + 1>>) = BlockOwner(q)
  BY <1>3, <1>5, NextLine
<1>13. QED BY <1>1, <1>2, <1>3, <1>11, <1>12, LineLInv

\* Where another directive begins, the places that were passed are the same.
LEMMA PassedOn ==
    ASSUME CInv, at \in 1..Len(plan), NEW l \in Nat,
           \/ plan[at].kind # "radius_dict" \/ plan[at].file = Null
           \/ plan[at].file \in Seq(ALine) /\ l > Len(plan[at].file)
    PROVE  Passed(<<at + 1, 1>>) = Passed(<<at, l>>)
<1>1. PlanOK /\ at \in Nat
  BY DEF CInv, PlanOK
<1>2. PICK f \in Nat : f = at
  BY <1>1
<1>3. \A r \in Places : r[1] = f => r[2] < l
  <2>1. TAKE r \in Places
  <2>2. HAVE r[1] = f
  <2>3. /\ plan[f].kind = "radius_dict" /\ plan[f].file # Null
        /\ r[2] \in 1..Len(plan[f].file) /\ Len(plan[f].file) \in Nat
    BY <1>1, <2>2, PlaceFacts
  <2>4. l > Len(plan[f].file)
    BY <1>2, <2>3
  <2>5. QED BY <2>3, <2>4
<1>4. Passed(<<f + 1, 1>>) = Passed(<<f, l>>)
  BY <1>1, <1>3, BeforeOver
<1>5. QED BY <1>2, <1>4

\* A step that reads no line.
LEMMA QuietLInv ==
    ASSUME CInv, LInv, UNCHANGED <<plan, strayed>>, stage \notin {"refused", "crashed"}, Base' = Base,
           stage' \notin {"refused", "crashed"} => (Passed(<<at, IF Loading THEN line ELSE 1>>) =
               Passed(<<at', IF Loading' THEN line' ELSE 1>>)),
           stage' = "loading" => \/ current' = 0 /\ line' = 1
                                 \/ UNCHANGED <<stage, at, line, current>>,
           Loading' => Directive'.kind = "radius_dict" /\ Directive'.file # Null,
           stage' = "registering" => line' > Len(Directive'.file)
    PROVE  LInv'
<1>1. ASSUME ~strayed', stage' \notin {"refused", "crashed"}
      PROVE  DictIs(Base, Passed(Where))' /\ (stage' = "loading" => current' = BlockOwner(Where)')
  <2>1. DictIs(Base, Passed(Where))
    BY <1>1 DEF LInv
  <2>2. PICK d, w : d = Base /\ w = Where'
    OBVIOUS
  <2>3. PICK R : R = Passed(w)
    OBVIOUS
  <2>4. R = Passed(Where)
    BY <1>1, <2>2, <2>3 DEF Where
  <2>5. Passed(w)' = R /\ DictIs(d, R)' /\ BlockOwner(w)' = BlockOwner(w)
    BY <2>1, <2>2, <2>3, <2>4, DictStays, FilesStay
  <2>6. DictIs(Base, Passed(Where))'
    BY <2>2, <2>5
  <2>7. CASE stage' = "loading" /\ current' = 0 /\ line' = 1
    <3>1. PICK f : f = at'
      OBVIOUS
    <3>2. w = <<f, 1>>
      BY <2>2, <2>7, <3>1 DEF Where, Loading
    <3>3. BlockOwner(<<f, 1>>) = 0
      BY FirstLine DEF CInv, PlanOK
    <3>4. QED BY <2>2, <2>5, <2>6, <2>7, <3>2, <3>3
  <2>8. CASE stage' = "loading" /\ UNCHANGED <<stage, at, line, current>>
    <3>1. w = Where /\ stage = "loading"
      BY <2>2, <2>8 DEF Where, Loading
    <3>2. current = BlockOwner(w)
      BY <1>1, <3>1 DEF LInv
    <3>3. QED BY <2>2, <2>5, <2>6, <2>8, <3>2
  <2>9. QED BY <2>6, <2>7, <2>8
<1>2. QED BY <1>1 DEF LInv

LEMMA ConfigLInv ==
    ASSUME CInv, LInv, Configure
    PROVE  LInv'
<1>1. CASE DeclareVendor \/ BeginById \/ BeginByName \/ EndVendor \/ Attribute \/ Ignored
  BY <1>1, DeclareVendorLInv, BlockLInv, AttributeLInv
<1>2. ASSUME stage' \in {"refused", "crashed"}
      PROVE  LInv'
  BY <1>2 DEF LInv, Loading
<1>3. PlanOK /\ line \in Nat
  BY DEF CInv, PlanOK
<1>4. CASE Define \/ (DefineAgain /\ at' = at + 1)
  <2>1. /\ Reading /\ at' = at + 1 /\ UNCHANGED <<plan, stage, dict, strayed>>
        /\ stage = "directives" /\ plan[at].kind = "define"
    <3>1. at + 1 # at
      BY DEF CInv
    <3>2. QED BY <1>4, <3>1 DEF Define, DefineAgain, Reading, Refuse, Directive
  <2>2. Passed(<<at + 1, 1>>) = Passed(<<at, 1>>)
    BY <2>1, DirectiveFacts, PassedOn
  <2>3. Base' = Base /\ ~Loading /\ ~Loading'
    BY <2>1 DEF Base, Loading
  <2>4. QED BY <2>1, <2>2, <2>3, QuietLInv DEF Loading
<1>5. CASE DefineAgain /\ at' # at + 1
  BY <1>2, <1>5 DEF DefineAgain, Refuse
<1>6. CASE StartDict
  <2>1. /\ stage = "directives" /\ stage' = "loading" /\ dict' = Base /\ line' = 1 /\ current' = 0
        /\ UNCHANGED <<plan, at, strayed>> /\ Directive.kind = "radius_dict" /\ Directive.file # Null
    BY <1>6 DEF StartDict, Reading
  <2>2. Base' = Base
    BY <2>1, BaseOK, NullAssumption DEF Base
  <2>3. Directive' = Directive /\ ~Loading /\ Loading'
    BY <2>1 DEF Directive, Loading
  <2>4. QED BY <2>1, <2>2, <2>3, QuietLInv
<1>7. CASE NoFile \/ BeginFalls
  BY <1>2, <1>7 DEF NoFile, BeginFalls, Refuse
<1>8. CASE EndOfFile
  <2>1. /\ stage = "loading" /\ stage' = "registering" /\ line > Len(Directive.file)
        /\ UNCHANGED <<plan, at, line, dict, strayed>>
    BY <1>8 DEF EndOfFile
  <2>2. Base' = Base /\ Directive' = Directive /\ Loading /\ Loading'
    BY <2>1 DEF Base, Directive, Loading
  <2>3. QED BY <2>1, <2>2, QuietLInv DEF LInv
<1>9. CASE Register \/ NextVendor \/ (RegisterAgain /\ stage' # "refused")
  <2>1. /\ stage = "registering" /\ UNCHANGED <<plan, stage, at, line, dict, strayed>>
    BY <1>9 DEF Register, NextVendor, RegisterAgain, Registering, Refuse
  <2>2. Base' = Base /\ Directive' = Directive /\ Loading /\ Loading'
    BY <2>1 DEF Base, Directive, Loading
  <2>3. QED BY <2>1, <2>2, QuietLInv DEF LInv
<1>10. CASE RegisterAgain /\ stage' = "refused"
  BY <1>2, <1>10
<1>11. CASE EndDict
  <2>1. /\ stage = "registering" /\ stage' = "directives" /\ at' = at + 1
        /\ UNCHANGED <<plan, dict, strayed>>
    BY <1>11 DEF EndDict
  <2>2. at \in 1..Len(plan) /\ plan[at].file \in Seq(ALine) /\ line > Len(plan[at].file)
    BY <2>1 DEF CInv, LInv, Directive
  <2>3. Passed(<<at + 1, 1>>) = Passed(<<at, line>>)
    BY <1>3, <2>2, PassedOn
  <2>4. Base' = Base /\ Loading /\ ~Loading'
    BY <2>1 DEF Base, Loading
  <2>5. QED BY <2>1, <2>3, <2>4, QuietLInv
<1>12. CASE Configured
  <2>1. /\ stage = "directives" /\ stage' = "serving" /\ dict' = Base
        /\ UNCHANGED <<plan, at, line, strayed>>
    BY <1>12 DEF Configured
  <2>2. Base' = Base /\ ~Loading /\ ~Loading'
    BY <2>1, BaseOK, NullAssumption DEF Base, Loading
  <2>3. QED BY <2>1, <2>2, QuietLInv
<1>13. QED BY <1>1, <1>4, <1>5, <1>6, <1>7, <1>8, <1>9, <1>10, <1>11, <1>12 DEF Configure

LEMMA StillLInv ==
    ASSUME CInv, LInv, UNCHANGED configVars
    PROVE  LInv'
<1>1. UNCHANGED <<plan, stage, at, line, current, dict, strayed>>
  BY DEF configVars
<1>2. Base' = Base /\ Directive' = Directive /\ Loading' = Loading
  BY <1>1 DEF Base, Directive, Loading
<1>3. CASE stage \in {"refused", "crashed"}
  BY <1>1, <1>3 DEF LInv, Loading
<1>4. CASE stage \notin {"refused", "crashed"}
  BY <1>1, <1>2, <1>4, QuietLInv DEF LInv
<1>5. QED BY <1>3, <1>4

LEMMA StepLInv == CInv /\ LInv /\ [ConfigNext]_<<vars, configVars>> => LInv'
<1>1. CASE CInv /\ LInv /\ Configure
  BY <1>1, ConfigLInv
<1>2. CASE CInv /\ LInv /\ UNCHANGED configVars
  BY <1>2, StillLInv
<1>3. QED BY <1>1, <1>2 DEF ConfigNext, Serve, Down

LEMMA InitLInv == CInv /\ ConfigInit => LInv
<1> SUFFICES ASSUME CInv, ConfigInit
             PROVE  LInv
  OBVIOUS
<1>1. stage = "directives" /\ at = 1 /\ dict = Null /\ PlanOK
  BY DEF ConfigInit, CInv, PlanOK
<1>2. Passed(<<1, 1>>) = {}
  <2>1. ASSUME NEW r \in Places
        PROVE  ~Precedes(r, <<1, 1>>)
    <3>1. /\ r[1] \in 1..Len(plan) /\ r[2] \in 1..Len(plan[r[1]].file)
          /\ Len(plan[r[1]].file) \in Nat
      BY <1>1, PlaceFacts
    <3>2. r[1] \in Nat /\ r[2] \in Nat /\ r[1] >= 1 /\ r[2] >= 1
      BY <1>1, <3>1 DEF PlanOK
    <3>3. QED BY <3>2 DEF Precedes
  <2>2. QED BY <2>1 DEF Passed
<1>3. Base = [attrs |-> Builtin, vendors |-> <<>>] /\ Where = <<1, 1>> /\ ~Loading
  BY <1>1 DEF Base, Where, Loading
<1>4. Len(Builtin) \in Nat
  BY TextAssumption
<1>5. Lists(Builtin, Len(Builtin), <<>>, {})
  BY <1>4, ListsNothing
<1>6. Standards(Builtin, {})
  BY <1>5 DEF Standards
<1>7. VendorsAre(<<>>, {}) /\ \A i \in 1..Len(<<>>) : Carries(<<>>[i], {})
  BY DEF VendorsAre
<1>8. DictIs(Base, Passed(Where))
  BY <1>2, <1>3, <1>6, <1>7 DEF DictIs
<1>9. QED BY <1>1, <1>3, <1>8 DEF LInv

-----------------------------------------------------------------------------
(* How an attribute is decoded                                             *)

Lowest(S) == CHOOSE i \in S : \A j \in S : i <= j

\* The definitions with a code, and the places that give one.
WithCode(defs, code) == {i \in DOMAIN defs : defs[i].code = code}
Giving(S, code) == {q \in S : Atoi(Arg(q, 2)) = code}

\* The first definition with a code, where none of the first n has it.
LEMMA FirstListed ==
    ASSUME PlanOK, NEW defs \in Seq(Def), NEW n \in Nat, NEW s, NEW S \in SUBSET Places,
           Lists(defs, n, s, S), NEW code, \A j \in 1..n : defs[j].code # code
    PROVE  IF Giving(S, code) = {} THEN WithCode(defs, code) = {}
           ELSE /\ WithCode(defs, code) # {}
                /\ defs[Lowest(WithCode(defs, code))].type
                     = TypeOf(Arg(Earliest(Giving(S, code)), 3))
<1> DEFINE hit   == WithCode(defs, code)
           given == Giving(S, code)
           K     == {k \in 1..Len(s) : s[k] \in given}
<1>1. s \in Seq(S) /\ Len(s) \in Nat /\ Len(defs) = n + Len(s) /\ DOMAIN defs = 1..n + Len(s)
  BY DEF Lists
<1>2. \A k \in 1..Len(s) : s[k] \in S /\ defs[n + k] = DefOf(s[k])
  BY <1>1 DEF Lists
<1>3. \A k \in 1..Len(s) : /\ defs[n + k].code = Atoi(Arg(s[k], 2))
                           /\ defs[n + k].type = TypeOf(Arg(s[k], 3))
  <2>1. \A q : DefOf(q).code = Atoi(Arg(q, 2)) /\ DefOf(q).type = TypeOf(Arg(q, 3))
    BY DEF DefOf
  <2>2. QED BY <1>2, <2>1
<1>4. hit = {n + k : k \in K}
  <2>1. ASSUME NEW i \in hit
        PROVE  \E k \in K : i = n + k
    <3>1. i \in 1..n + Len(s) /\ defs[i].code = code
      BY <1>1 DEF WithCode
    <3>2. i \notin 1..n
      BY <3>1
    <3>3. PICK k \in 1..Len(s) : i = n + k
      <4>1. i - n \in 1..Len(s) /\ i = n + (i - n)
        BY <1>1, <3>1, <3>2
      <4>2. QED BY <4>1
    <3>4. k \in K
      BY <1>2, <1>3, <3>1, <3>3 DEF Giving
    <3>5. QED BY <3>3, <3>4
  <2>2. ASSUME NEW k \in K
        PROVE  n + k \in hit
    <3>1. n + k \in 1..n + Len(s)
      BY <1>1
    <3>2. QED BY <1>1, <1>3, <3>1 DEF WithCode, Giving
  <2>3. QED BY <2>1, <2>2
<1>5. \A q \in given : \E k \in K : s[k] = q
  BY DEF Lists, Giving
<1>6. K \in SUBSET (1..Len(s)) /\ given \in SUBSET Places /\ \A k \in K : s[k] \in given
  BY DEF Giving
<1> HIDE DEF hit, K, given
<1>7. CASE given = {}
  BY <1>4, <1>6, <1>7 DEF hit, given, K
<1>8. CASE given # {}
  <2>1. K # {}
    BY <1>5, <1>8
  <2>2. PICK k \in K : \A j \in K : k <= j
    BY <1>1, <1>6, <2>1, LeastOf
  <2>3. k \in 1..Len(s) /\ n + k \in hit
    BY <1>4, <1>6
  <2>4. Lowest(hit) = n + k
    <3>1. \A j \in hit : n + k <= j
      <4>1. TAKE j \in hit
      <4>2. PICK m \in K : j = n + m
        BY <1>4
      <4>3. m \in Nat /\ k \in Nat /\ k <= m
        BY <1>1, <1>6, <2>2
      <4>4. QED BY <4>2, <4>3
    <3>2. \A i \in hit : (\A j \in hit : i <= j) => i = n + k
      <4>1. TAKE i \in hit
      <4>2. HAVE \A j \in hit : i <= j
      <4>3. i <= n + k /\ n + k <= i
        BY <2>3, <3>1, <4>2
      <4>4. i \in Nat /\ n + k \in Nat
        BY <1>4, <1>6, <2>3
      <4>5. QED BY <4>3, <4>4
    <3>3. QED BY <2>3, <3>1, <3>2 DEF Lowest
  <2>5. Earliest(given) = s[k]
    <3>1. \A q \in given \ {s[k]} : Precedes(s[k], q)
      <4>1. TAKE q \in given \ {s[k]}
      <4>2. PICK j \in K : s[j] = q
        BY <1>5
      <4>3. j # k /\ k <= j /\ j \in 1..Len(s)
        BY <1>6, <2>2, <4>2
      <4>4. k < j
        BY <2>3, <4>3
      <4>5. QED BY <2>3, <4>2, <4>3, <4>4 DEF Lists
    <3>2. given \in SUBSET Place2 /\ s[k] \in given
      BY <1>6, PlaceFacts
    <3>3. QED BY <3>1, <3>2, EarliestIs
  <2>6. defs[n + k].type = TypeOf(Arg(s[k], 3))
    BY <1>3, <2>3
  <2>7. hit # {} /\ defs[Lowest(hit)].type = TypeOf(Arg(Earliest(given), 3))
    BY <2>3, <2>4, <2>5, <2>6
  <2>8. QED BY <1>8, <2>7 DEF hit, given
<1>9. QED BY <1>7, <1>8

AllRead == DictOK /\ DictIs(dict, Places)

\* With the whole files read, an attribute is decoded as they say.
LEMMA DecodedStandard ==
    ASSUME PlanOK, AllRead, NEW code
    PROVE  LET built == WithCode(Builtin, code)
               given == Giving(AttributesOf(0), code)
           IN  TypeIn(0, code) =
                 IF built # {} THEN Builtin[Lowest(built)].type
                 ELSE IF given # {} THEN TypeOf(Arg(Earliest(given), 3)) ELSE "octets"
<1> DEFINE built == WithCode(Builtin, code)
           given == Giving(AttributesOf(0), code)
<1>1. PICK defs \in Seq(Def) : defs = dict.attrs
  BY DEF AllRead, DictOK, Dictionary
<1> DEFINE hit == WithCode(defs, code)
<1>2. TypeIn(0, code) = IF hit = {} THEN "octets"
                        ELSE defs[Lowest(hit)].type
  BY <1>1 DEF TypeIn, WithCode, Lowest
<1>3. PICK n \in Nat : n = Len(Builtin) /\ DOMAIN Builtin = 1..n
  BY TextAssumption
<1>4. AttributesOf(0) \cap Places = AttributesOf(0)
  BY DEF AttributesOf
<1>5. PICK s : Lists(defs, n, s, AttributesOf(0))
  BY <1>1, <1>3, <1>4 DEF AllRead, DictIs, Standards
<1>6. \A i \in 1..n : defs[i] = Builtin[i]
  BY <1>1, <1>3 DEF AllRead, DictIs, Standards
<1>7. DOMAIN defs = 1..n + Len(s) /\ Len(s) \in Nat
  BY <1>5 DEF Lists
<1>8. CASE built = {}
  <2>1. \A j \in 1..n : defs[j].code # code
    BY <1>3, <1>6, <1>8 DEF WithCode
  <2>2. PICK S \in SUBSET Places : S = AttributesOf(0)
    BY DEF AttributesOf
  <2> DEFINE some == Giving(S, code)
  <2>3. IF some = {} THEN hit = {}
        ELSE hit # {} /\ defs[Lowest(hit)].type
                         = TypeOf(Arg(Earliest(some), 3))
    <3>1. Lists(defs, n, s, S)
      BY <1>5, <2>2
    <3>2. QED BY <2>1, <3>1, FirstListed
  <2>4. some = given
    BY <2>2
  <2> HIDE DEF hit, given, some
  <2>5. QED BY <1>2, <1>8, <2>3, <2>4 DEF given
<1>9. CASE built # {}
  <2>1. built \in SUBSET (1..n)
    BY <1>3 DEF WithCode
  <2>2. built \subseteq hit
    BY <1>3, <1>6, <1>7 DEF WithCode
  <2>3. \A i \in hit : i \in Nat /\ (i <= n => i \in built)
    BY <1>3, <1>6, <1>7 DEF WithCode
  <2> HIDE DEF built, hit
  <2>4. PICK m \in built : \A j \in built : m <= j
    BY <1>9, <2>1, LeastOf
  <2>5. m \in 1..n /\ m \in Nat
    BY <2>1
  <2>6. \A j \in hit : m <= j
    <3>1. TAKE j \in hit
    <3>2. CASE j <= n
      BY <2>3, <2>4, <3>2
    <3>3. CASE ~(j <= n)
      BY <2>3, <2>5, <3>3
    <3>4. QED BY <3>2, <3>3
  <2>7. Lowest(hit) = m
    <3>1. \A i \in hit : (\A j \in hit : i <= j) => i = m
      <4>1. TAKE i \in hit
      <4>2. HAVE \A j \in hit : i <= j
      <4>3. i <= m /\ m <= i /\ i \in Nat
        BY <2>2, <2>3, <2>6, <4>2
      <4>4. QED BY <2>5, <4>3
    <3>2. QED BY <2>2, <2>6, <3>1 DEF Lowest
  <2>8. Lowest(built) = m
    <3>1. \A i \in built : (\A j \in built : i <= j) => i = m
      <4>1. TAKE i \in built
      <4>2. HAVE \A j \in built : i <= j
      <4>3. i <= m /\ m <= i /\ i \in Nat
        BY <2>1, <2>4, <4>2
      <4>4. QED BY <2>5, <4>3
    <3>2. QED BY <2>4, <3>1 DEF Lowest
  <2>9. TypeIn(0, code) = Builtin[m].type
    BY <1>2, <1>6, <2>2, <2>5, <2>7
  <2>10. QED BY <1>9, <2>8, <2>9 DEF built
<1>10. QED BY <1>8, <1>9

\* The vendor with a number that is mentioned.
LEMMA PlaceOf ==
    ASSUME PlanOK, AllRead, NEW id \in Mentioned
    PROVE  /\ Known(id) /\ Place(dict.vendors, id) \in 1..Len(dict.vendors)
           /\ dict.vendors[Place(dict.vendors, id)].id = id
<1>1. Origin(id) \in Places /\ Mentions(Origin(id), id)
  BY MentionedFacts
<1>2. \E i \in 1..Len(dict.vendors) : dict.vendors[i].id = id
  BY <1>1 DEF AllRead, DictIs, VendorsAre
<1>3. DOMAIN dict.vendors = 1..Len(dict.vendors)
  BY DEF AllRead, DictOK, Dictionary, Vendors
<1>4. QED BY <1>2, <1>3 DEF Known, Place

LEMMA DecodedVendor ==
    ASSUME PlanOK, AllRead, NEW id \in Mentioned, id # 0, NEW code
    PROVE  LET given == Giving(AttributesOf(id), code)
           IN  TypeIn(id, code) =
                 IF given # {} THEN TypeOf(Arg(Earliest(given), 3)) ELSE "octets"
<1> DEFINE given == Giving(AttributesOf(id), code)
<1>1. PICK v : v = dict.vendors[Place(dict.vendors, id)]
  OBVIOUS
<1>2. v \in AVendor /\ v.id = id /\ Carries(v, Places)
  <2>1. dict.vendors \in Seq(AVendor)
    BY DEF AllRead, DictOK, Dictionary, Vendors, AVendor
  <2>2. QED BY <1>1, <2>1, PlaceOf DEF AllRead, DictIs
<1>3. PICK defs \in Seq(Def) : defs = v.attrs
  BY <1>2 DEF AVendor
<1> DEFINE hit == WithCode(defs, code)
<1>4. TypeIn(id, code) = IF hit = {} THEN "octets"
                         ELSE defs[Lowest(hit)].type
  BY <1>1, <1>3, PlaceOf DEF TypeIn, WithCode, Lowest
<1>5. PICK S \in SUBSET Places : S = AttributesOf(id)
  BY DEF AttributesOf
<1>6. PICK s : Lists(defs, 0, s, S)
  <2>1. AttributesOf(id) \cap Places = S
    BY <1>5
  <2>2. QED BY <1>2, <1>3, <2>1 DEF Carries
<1>7. \A j \in 1..0 : defs[j].code # code
  OBVIOUS
<1> DEFINE some == Giving(S, code)
<1>8. IF some = {} THEN hit = {}
      ELSE hit # {} /\ defs[Lowest(hit)].type
                       = TypeOf(Arg(Earliest(some), 3))
  BY <1>6, <1>7, FirstListed
<1>9. some = given
  BY <1>5
<1> HIDE DEF hit, given, some
<1>10. TypeIn(id, code) = IF given # {} THEN TypeOf(Arg(Earliest(given), 3)) ELSE "octets"
  BY <1>4, <1>8, <1>9
<1>11. QED BY <1>10 DEF given

-----------------------------------------------------------------------------
(* The variables                                                           *)

\* The variables reg when f directives are done and the attributes H were handled: those of
\* map and the like, and one for each name of the attributes that they leave.
Registry(H, reg, f) ==
    /\ \A n \in DOMAIN reg : reg[n].by \in {"map", "radius"}
    /\ \A n : Defined(n, f) <=> n \in DOMAIN reg /\ reg[n].by = "map"
    /\ \A n \in DOMAIN reg : reg[n].by = "radius" => \E q \in H : DueName(q) = n /\ ~Defined(n, q[1])
    /\ \A q \in H : ~Defined(DueName(q), q[1]) =>
         /\ DueName(q) \in DOMAIN reg
         /\ reg[DueName(q)] = [by |-> "radius", data |-> VsaData(Owner(q), Atoi(Arg(q, 2)))]
    /\ \A q, r \in H : q # r /\ DueName(q) = DueName(r) => Defined(DueName(q), q[1])

\* The first k - 1 of a vendor's attributes were handled.
UpTo(defs, A, H, k) ==
    \E s : Lists(defs, 0, s, A) /\ \A j \in 1..Len(s) : s[j] \in H <=> j < k

\* The loop over the new vendors is at nx: it has handled H of vendor i, from file a.
Progress(v, i, H, a, nx, w) ==
    LET A == AttributesOf(v.id) \cap Passed(w)
    IN  Origin(v.id)[1] = a /\ v.id # 0 =>
          /\ i < nx[1] => A \subseteq H
          /\ i > nx[1] => A \cap H = {}
          /\ i = nx[1] => UpTo(v.attrs, A, H, nx[2])

\* The attributes H are those that were handled at directive a.
Handling(H, st, a, nx, vs, w) ==
    /\ \A q \in Due : q[1] < a => q \in H
    /\ \A q \in H : q[1] <= a /\ (st # "registering" => q[1] < a)
    /\ st = "loading" =>
         /\ nx[2] = 1 /\ nx[1] <= Len(vs) + 1
         /\ \A i \in 1..Len(vs) : i < nx[1] <=> Origin(vs[i].id)[1] < a
    /\ st = "registering" =>
         \A i \in 1..Len(vs) : /\ i >= nx[1] => Origin(vs[i].id)[1] = a
                               /\ Progress(vs[i], i, H, a, nx, w)

FilesThere(f) == \A g \in 1..f : plan[g].kind = "radius_dict" => plan[g].file # Null

\* Inductive, as long as no vendor was mistaken: the variables are those of the attributes
\* that were handled, and nginx stops for nothing but what the files say.
VInv ==
    /\ stage = "serving" => at > Len(plan)
    /\ ~strayed /\ stage \notin {"refused", "crashed"} =>
         /\ \E H \in SUBSET Due : /\ Handling(H, stage, at, next, Base.vendors, Where)
                                 /\ Registry(H, registered, at - 1)
         /\ FilesThere(at - 1)
    /\ ~strayed /\ stage = "refused" => Unacceptable
    /\ ~strayed /\ stage = "crashed" => \E id \in Mentioned : NameOf(id) = Null

LEMMA DefinedNext ==
    ASSUME NEW f \in Nat, f >= 1, NEW n
    PROVE  Defined(n, f) <=> Defined(n, f - 1) \/ (plan[f].kind = "define" /\ plan[f].name = n)
<1>1. \A g : g \in 1..f <=> g \in 1..f - 1 \/ g = f
  OBVIOUS
<1>2. QED BY <1>1 DEF Defined

LEMMA DefinedMore ==
    ASSUME NEW n, NEW f \in Nat, NEW g \in Nat, f <= g, Defined(n, f)
    PROVE  Defined(n, g)
<1>1. 1..f \subseteq 1..g
  OBVIOUS
<1>2. QED BY <1>1 DEF Defined

LEMMA DueFacts ==
    ASSUME PlanOK, NEW q \in Due
    PROVE  /\ q \in Places /\ q[1] \in Nat \ {0} /\ q[1] \in 1..Len(plan)
           /\ plan[q[1]].kind = "radius_dict"
           /\ Says(q, "ATTRIBUTE", 3) /\ Owner(q) # 0 /\ Origin(Owner(q))[1] = q[1]
           /\ q \in AttributesOf(Owner(q))
<1>1. /\ q \in Places /\ Says(q, "ATTRIBUTE", 3) /\ Owner(q) # 0 /\ Origin(Owner(q))[1] = q[1]
  BY DEF Due
<1>2. q[1] \in 1..Len(plan) /\ plan[q[1]].kind = "radius_dict"
  BY <1>1, PlaceFacts
<1>3. Len(plan) \in Nat
  BY DEF PlanOK
<1>4. QED BY <1>1, <1>2, <1>3 DEF AttributesOf

LEMMA VariablesStay ==
    ASSUME UNCHANGED plan
    PROVE  /\ \A H, reg, f : Registry(H, reg, f)' = Registry(H, reg, f)
           /\ \A H, st, a, nx, vs, w :
                Handling(H, st, a, nx, vs, w)' = Handling(H, st, a, nx, vs, w)
           /\ \A f : FilesThere(f)' = FilesThere(f)
<1>1. \A H, reg, f : Registry(H, reg, f)' = Registry(H, reg, f)
  BY FilesStay DEF Registry
<1>2. \A v, i, H, a, nx, w : Progress(v, i, H, a, nx, w)' = Progress(v, i, H, a, nx, w)
  <2>1. \A id : Origin(id)' = Origin(id)
    BY FilesStay
  <2>2. \A id, w : AttributesOf(id)' \cap Passed(w)' = AttributesOf(id) \cap Passed(w)
    BY DictStays
  <2>3. \A defs, A, H, k : UpTo(defs, A, H, k)' = UpTo(defs, A, H, k)
    BY DictStays DEF UpTo
  <2>4. QED BY <2>1, <2>2, <2>3 DEF Progress
<1>3. \A H, st, a, nx, vs, w : Handling(H, st, a, nx, vs, w)' = Handling(H, st, a, nx, vs, w)
  BY <1>2, FilesStay DEF Handling
<1>4. \A f : FilesThere(f)' = FilesThere(f)
  BY DEF FilesThere
<1>5. QED BY <1>1, <1>3, <1>4

\* A variable more.
With(reg, n, v) == [m \in DOMAIN reg \cup {n} |-> IF m = n THEN v ELSE reg[m]]

\* A directive that defines no variable.
LEMMA RegistryPast ==
    ASSUME NEW H, NEW reg, NEW f \in Nat, Registry(H, reg, f), plan[f + 1].kind # "define"
    PROVE  Registry(H, reg, f + 1)
<1>1. \A n : Defined(n, f + 1) <=> Defined(n, f)
  BY DefinedNext
<1>2. QED BY <1>1 DEF Registry

\* One that defines a variable, or one that is defined already.
LEMMA RegistryDefined ==
    ASSUME NEW H, NEW reg, NEW f \in Nat, Registry(H, reg, f), plan[f + 1].kind = "define",
           NEW n, n = plan[f + 1].name, NEW new,
           \/ n \notin DOMAIN reg /\ new = With(reg, n, [by |-> "map", data |-> 0])
           \/ n \in DOMAIN reg /\ reg[n].by = "map" /\ new = reg
    PROVE  Registry(H, new, f + 1)
<1>1. \A m : Defined(m, f + 1) <=> Defined(m, f) \/ m = n
  BY DefinedNext
<1>2. CASE n \in DOMAIN reg /\ reg[n].by = "map" /\ new = reg
  <2>1. \A m : Defined(m, f + 1) <=> Defined(m, f)
    BY <1>1, <1>2 DEF Registry
  <2>2. QED BY <1>2, <2>1 DEF Registry
<1>3. CASE n \notin DOMAIN reg /\ new = With(reg, n, [by |-> "map", data |-> 0])
  <2>1. /\ DOMAIN new = DOMAIN reg \cup {n} /\ new[n].by = "map"
        /\ \A m \in DOMAIN reg : m # n /\ new[m] = reg[m]
    <3>1. PICK v : v = [by |-> "map", data |-> 0]
      OBVIOUS
    <3>2. v.by = "map"
      BY <3>1
    <3>3. n \notin DOMAIN reg /\ new = With(reg, n, v)
      BY <1>3, <3>1
    <3>4. QED BY <3>2, <3>3 DEF With
  <2>2. \A m \in DOMAIN new : new[m].by \in {"map", "radius"}
    BY <2>1 DEF Registry
  <2>3. \A m : Defined(m, f + 1) <=> m \in DOMAIN new /\ new[m].by = "map"
    BY <1>1, <1>3, <2>1 DEF Registry
  <2>4. \A m \in DOMAIN new : new[m].by = "radius" => \E q \in H : DueName(q) = m /\ ~Defined(m, q[1])
    BY <2>1 DEF Registry
  <2>5. \A q \in H : ~Defined(DueName(q), q[1]) =>
          /\ DueName(q) \in DOMAIN new
          /\ new[DueName(q)] = [by |-> "radius", data |-> VsaData(Owner(q), Atoi(Arg(q, 2)))]
    BY <2>1 DEF Registry
  <2>6. QED BY <2>2, <2>3, <2>4, <2>5 DEF Registry
<1>4. QED BY <1>2, <1>3

\* An attribute of the file that is loaded gets a variable, or finds one that it leaves alone.
LEMMA RegistryHandled ==
    ASSUME PlanOK, NEW H \in SUBSET Due, NEW reg, NEW f \in Nat, Registry(H, reg, f),
           \A r \in H : r[1] <= f + 1, NEW q \in Due, q \notin H, q[1] = f + 1, NEW new,
           \/ /\ DueName(q) \notin DOMAIN reg
              /\ new = With(reg, DueName(q), [by |-> "radius", data |-> VsaData(Owner(q), Atoi(Arg(q, 2)))])
           \/ DueName(q) \in DOMAIN reg /\ reg[DueName(q)].by = "map" /\ new = reg
    PROVE  Registry(H \cup {q}, new, f)
<1>1. plan[f + 1].kind # "define"
  BY DueFacts
<1>2. \A n : Defined(n, f + 1) <=> Defined(n, f)
  BY <1>1, DefinedNext
<1>3. PICK n : n = DueName(q)
  OBVIOUS
<1>4. PICK v : v = [by |-> "radius", data |-> VsaData(Owner(q), Atoi(Arg(q, 2)))]
  OBVIOUS
<1>5. \A r \in H : r[1] \in Nat /\ (Defined(n, r[1]) => Defined(n, f))
  <2>1. TAKE r \in H
  <2>2. r[1] \in Nat /\ r[1] <= f + 1
    BY DueFacts
  <2>3. Defined(n, r[1]) => Defined(n, f + 1)
    BY <2>2, DefinedMore
  <2>4. QED BY <1>2, <2>2, <2>3
<1>6. CASE n \in DOMAIN reg /\ reg[n].by = "map" /\ new = reg
  <2>1. Defined(n, f) /\ Defined(n, q[1])
    BY <1>2, <1>6 DEF Registry
  <2>2. \A r \in H : DueName(r) = n => Defined(n, r[1])
    <3>1. \A r \in H : ~Defined(DueName(r), r[1]) => reg[DueName(r)].by = "radius"
      <4>1. \A r \in H : ~Defined(DueName(r), r[1]) =>
              reg[DueName(r)] = [by |-> "radius", data |-> VsaData(Owner(r), Atoi(Arg(r, 2)))]
        BY DEF Registry
      <4>2. \A d : [by |-> "radius", data |-> d].by = "radius"
        OBVIOUS
      <4>3. QED BY <4>1, <4>2, Zenon
    <3>2. QED BY <1>6, <3>1
  <2>3. \A r, s \in H \cup {q} : r # s /\ DueName(r) = DueName(s) => Defined(DueName(r), r[1])
    BY <1>3, <2>1, <2>2 DEF Registry
  <2>4. \A r \in H \cup {q} : ~Defined(DueName(r), r[1]) => r \in H
    BY <1>3, <2>1
  <2>5. QED BY <1>6, <2>3, <2>4 DEF Registry
<1>7. CASE n \notin DOMAIN reg /\ new = With(reg, n, v)
  <2>1. /\ DOMAIN new = DOMAIN reg \cup {n} /\ new[n] = v /\ v.by = "radius"
        /\ \A m \in DOMAIN reg : m # n /\ new[m] = reg[m]
    <3>1. v.by = "radius"
      BY <1>4
    <3>2. QED BY <1>7, <3>1 DEF With
  <2>2. ~Defined(n, f) /\ ~Defined(n, q[1])
    BY <1>2, <1>7 DEF Registry
  <2>3. \A r \in H : DueName(r) # n
    BY <1>5, <1>7, <2>2 DEF Registry
  <2>4. \A m \in DOMAIN new : new[m].by \in {"map", "radius"}
    BY <2>1 DEF Registry
  <2>5. \A m : Defined(m, f) <=> m \in DOMAIN new /\ new[m].by = "map"
    BY <2>1, <2>2 DEF Registry
  <2>6. \A m \in DOMAIN new : new[m].by = "radius" =>
          \E r \in H \cup {q} : DueName(r) = m /\ ~Defined(m, r[1])
    BY <1>3, <2>1, <2>2 DEF Registry
  <2>7. \A r \in H \cup {q} : ~Defined(DueName(r), r[1]) =>
          /\ DueName(r) \in DOMAIN new
          /\ new[DueName(r)] = [by |-> "radius", data |-> VsaData(Owner(r), Atoi(Arg(r, 2)))]
    BY <1>3, <1>4, <2>1 DEF Registry
  <2>8. \A r, s \in H \cup {q} : r # s /\ DueName(r) = DueName(s) => Defined(DueName(r), r[1])
    BY <1>3, <2>3 DEF Registry
  <2>9. QED BY <2>4, <2>5, <2>6, <2>7, <2>8 DEF Registry
<1>8. QED BY <1>3, <1>4, <1>6, <1>7

-----------------------------------------------------------------------------
(* How far the variables are                                               *)

\* A directive that loads no file.
LEMMA HandlingPast ==
    ASSUME PlanOK, NEW H \in SUBSET Due, NEW a \in Nat, NEW nx, NEW vs, NEW w,
           Handling(H, "directives", a, nx, vs, w), plan[a].kind # "radius_dict",
           NEW ny, NEW ws, NEW z
    PROVE  Handling(H, "directives", a + 1, ny, ws, z)
<1>1. \A q \in Due : q[1] \in Nat /\ q[1] # a
  BY DueFacts
<1>2. \A q \in Due : q[1] < a + 1 => q[1] < a
  BY <1>1
<1>3. \A q \in H : q[1] < a /\ q[1] \in Nat
  BY <1>1 DEF Handling
<1>4. \A q \in H : q[1] <= a + 1 /\ q[1] < a + 1
  BY <1>3
<1>5. QED BY <1>2, <1>4 DEF Handling

LEMMA HandlingBegins ==
    ASSUME NEW H \in SUBSET Due, NEW a \in Nat, NEW nx, NEW vs, NEW w,
           Handling(H, "directives", a, nx, vs, w), Len(vs) \in Nat,
           \A i \in 1..Len(vs) : Origin(vs[i].id)[1] < a, NEW z
    PROVE  Handling(H, "loading", a, <<Len(vs) + 1, 1>>, vs, z)
<1>1. <<Len(vs) + 1, 1>>[1] = Len(vs) + 1 /\ <<Len(vs) + 1, 1>>[2] = 1
  OBVIOUS
<1>2. \A i \in 1..Len(vs) : i < Len(vs) + 1
  OBVIOUS
<1>3. QED BY <1>1, <1>2 DEF Handling

\* The vendors that a line brings in are new, and behind the others.
LEMMA HandlingLine ==
    ASSUME PlanOK, NEW H \in SUBSET Due, NEW a \in Nat, NEW nx, nx[1] \in Nat, NEW w,
           NEW vs \in Seq(AVendor), NEW ws \in Seq(AVendor), Unique(ws),
           Handling(H, "loading", a, nx, vs, w),
           DOMAIN vs \subseteq DOMAIN ws, \A i \in DOMAIN vs : ws[i].id = vs[i].id,
           NEW l \in Nat, VendorsAre(vs, Passed(<<a, l>>)), NEW R \in SUBSET Places, VendorsAre(ws, R),
           NEW z
    PROVE  Handling(H, "loading", a, nx, ws, z)
<1>1. /\ Len(vs) \in Nat /\ Len(ws) \in Nat /\ DOMAIN vs = 1..Len(vs) /\ DOMAIN ws = 1..Len(ws)
      /\ Len(vs) <= Len(ws)
  OBVIOUS
<1>2. nx[1] <= Len(vs) + 1 /\ nx[2] = 1
  BY DEF Handling
<1>3. nx[1] <= Len(ws) + 1
  BY <1>1, <1>2
<1>4. ASSUME NEW i \in 1..Len(ws)
      PROVE  i < nx[1] <=> Origin(ws[i].id)[1] < a
  <2>1. CASE i \in 1..Len(vs)
    BY <1>1, <2>1 DEF Handling
  <2>2. CASE i \notin 1..Len(vs)
    <3>1. ~(i < nx[1])
      BY <1>1, <1>2, <2>2
    <3>2. ASSUME Origin(ws[i].id)[1] < a
          PROVE  FALSE
      <4>1. PICK id : id = ws[i].id
        OBVIOUS
      <4>2. Origin(id) \in Places /\ Mentions(Origin(id), id)
        BY <4>1 DEF VendorsAre
      <4>3. Origin(id) \in Passed(<<a, l>>)
        BY <3>2, <4>1, <4>2 DEF Passed, Precedes
      <4>4. PICK j \in 1..Len(vs) : vs[j].id = id
        BY <4>2, <4>3 DEF VendorsAre
      <4>5. ws[j].id = ws[i].id /\ j \in DOMAIN ws
        BY <1>1, <4>1, <4>4
      <4>6. QED BY <1>1, <2>2, <4>4, <4>5 DEF Unique
    <3>3. QED BY <3>1, <3>2
  <2>3. QED BY <2>1, <2>2
<1>5. QED BY <1>2, <1>3, <1>4 DEF Handling

\* What is given to a vendor of this file comes from this file.
LEMMA GivenHere ==
    ASSUME PlanOK, NEW id, id # 0, NEW a \in Nat, Origin(id)[1] = a, NEW w,
           NEW q \in AttributesOf(id) \cap Passed(w)
    PROVE  q \in Places /\ q[1] \in Nat /\ q[1] >= a /\ Owner(q) = id /\ Says(q, "ATTRIBUTE", 3)
<1>1. q \in Places /\ Owner(q) = id /\ Says(q, "ATTRIBUTE", 3)
  BY DEF AttributesOf
<1>2. Origin(id) \in Places /\ ~Precedes(q, Origin(id))
  BY <1>1, OwnerMentioned
<1>3. q[1] \in Nat
  BY <1>1, PlaceFacts DEF Place2
<1>4. QED BY <1>1, <1>2, <1>3 DEF Precedes

LEMMA HandlingRegisters ==
    ASSUME PlanOK, NEW H \in SUBSET Due, NEW a \in Nat, NEW nx, nx[1] \in Nat, NEW vs, Len(vs) \in Nat,
           NEW l \in Nat, NEW w, w = <<a, l>>, Handling(H, "loading", a, nx, vs, w),
           VendorsAre(vs, Passed(w)), \A i \in 1..Len(vs) : Carries(vs[i], Passed(w))
    PROVE  Handling(H, "registering", a, nx, vs, w)
<1>1. /\ \A q \in Due : q[1] < a => q \in H
      /\ \A q \in H : q[1] <= a /\ q[1] < a
      /\ nx[2] = 1 /\ \A i \in 1..Len(vs) : i < nx[1] <=> Origin(vs[i].id)[1] < a
  BY DEF Handling
<1>2. ASSUME NEW i \in 1..Len(vs), i >= nx[1]
      PROVE  Origin(vs[i].id)[1] = a
  <2>1. PICK o : o = Origin(vs[i].id)
    OBVIOUS
  <2>2. o \in Passed(w) /\ ~(o[1] < a)
    <3>1. o \in Passed(w)
      BY <2>1 DEF VendorsAre
    <3>2. ~(i < nx[1])
      BY <1>2
    <3>3. QED BY <1>1, <2>1, <3>1, <3>2
  <2>3. Precedes(o, w)
    BY <2>2 DEF Passed
  <2>4. w[1] = a
    OBVIOUS
  <2>5. QED BY <2>1, <2>2, <2>3, <2>4 DEF Precedes
<1>3. ASSUME NEW i \in 1..Len(vs)
      PROVE  Progress(vs[i], i, H, a, nx, w)
  <2>1. PICK v : v = vs[i]
    OBVIOUS
  <2> DEFINE A == AttributesOf(v.id) \cap Passed(w)
  <2>2. SUFFICES ASSUME Origin(v.id)[1] = a, v.id # 0
                 PROVE  /\ i < nx[1] => A \subseteq H
                        /\ i > nx[1] => A \cap H = {}
                        /\ i = nx[1] => UpTo(v.attrs, A, H, nx[2])
    BY <2>1 DEF Progress
  <2>3. ~(i < nx[1])
    BY <1>1, <2>1, <2>2
  <2>4. \A q \in A : q \notin H
    <3>1. TAKE q \in A
    <3>2. q[1] \in Nat /\ q[1] >= a
      BY <2>2, GivenHere
    <3>3. QED BY <1>1, <3>2
  <2>5. UpTo(v.attrs, A, H, 1)
    <3>1. PICK s : Lists(v.attrs, 0, s, A)
      BY <2>1, <2>2 DEF Carries
    <3>2. s \in Seq(A)
      BY <3>1 DEF Lists
    <3>3. \A j \in 1..Len(s) : s[j] \notin H /\ ~(j < 1)
      BY <2>4, <3>2
    <3>4. QED BY <3>1, <3>3 DEF UpTo
  <2>6. QED BY <1>1, <2>3, <2>4, <2>5
<1>4. QED BY <1>1, <1>2, <1>3 DEF Handling

\* One attribute more.
LEMMA HandlingNext ==
    ASSUME PlanOK, NEW H \in SUBSET Due, NEW a \in Nat, NEW m \in Nat, NEW k \in Nat,
           NEW vs \in Seq(AVendor), NEW w, Handling(H, "registering", a, <<m, k>>, vs, w),
           \A i, j \in 1..Len(vs) : vs[i].id = vs[j].id => i = j,
           m \in 1..Len(vs), vs[m].id # 0, Origin(vs[m].id)[1] = a,
           NEW s, NEW A, A = AttributesOf(vs[m].id) \cap Passed(w), Lists(vs[m].attrs, 0, s, A),
           \A j \in 1..Len(s) : s[j] \in H <=> j < k, k \in 1..Len(s), NEW q, q = s[k], q[1] = a
    PROVE  Handling(H \cup {q}, "registering", a, <<m, k + 1>>, vs, w)
<1>1. /\ \A r \in Due : r[1] < a => r \in H
      /\ \A r \in H : r[1] <= a
      /\ \A i \in 1..Len(vs) : i >= m => Origin(vs[i].id)[1] = a
      /\ \A i \in 1..Len(vs) : Progress(vs[i], i, H, a, <<m, k>>, w)
  BY DEF Handling
<1>2. s \in Seq(A) /\ Len(s) \in Nat /\ q \in A
  BY DEF Lists
<1>3. \A i, j \in 1..Len(s) : s[i] = s[j] => i = j
  <2>1. \A i \in 1..Len(s) : s[i] \in Place2
    BY <1>2, PlaceFacts DEF Passed
  <2>2. TAKE i, j \in 1..Len(s)
  <2>3. HAVE s[i] = s[j]
  <2>4. ~(i < j)
    BY <2>1, <2>3, Order DEF Lists
  <2>5. ~(j < i)
    BY <2>1, <2>3, Order DEF Lists
  <2>6. QED BY <1>2, <2>4, <2>5
<1>4. ASSUME NEW i \in 1..Len(vs)
      PROVE  Progress(vs[i], i, H \cup {q}, a, <<m, k + 1>>, w)
  <2>1. PICK v : v = vs[i]
    OBVIOUS
  <2> DEFINE B == AttributesOf(v.id) \cap Passed(w)
  <2>2. SUFFICES ASSUME Origin(v.id)[1] = a, v.id # 0
                 PROVE  /\ i < m => B \subseteq H \cup {q}
                        /\ i > m => B \cap (H \cup {q}) = {}
                        /\ i = m => UpTo(v.attrs, B, H \cup {q}, k + 1)
    BY <2>1 DEF Progress
  <2>3. (i < m => B \subseteq H) /\ (i > m => B \cap H = {})
    BY <1>1, <2>1, <2>2 DEF Progress
  <2>4. i > m => q \notin B
    <3>1. HAVE i > m
    <3>2. v.id # vs[m].id
      BY <2>1, <3>1
    <3>3. QED BY <1>2, <3>2 DEF AttributesOf
  <2>5. ASSUME i = m
        PROVE  UpTo(v.attrs, B, H \cup {q}, k + 1)
    <3>1. B = A /\ Lists(v.attrs, 0, s, B)
      BY <2>1, <2>5
    <3>2. \A j \in 1..Len(s) : s[j] \in H \cup {q} <=> j < k + 1
      <4>1. TAKE j \in 1..Len(s)
      <4>2. s[j] = q <=> j = k
        BY <1>3
      <4>3. j < k + 1 <=> j < k \/ j = k
        BY <1>2
      <4>4. QED BY <4>2, <4>3
    <3>3. QED BY <3>1, <3>2 DEF UpTo
  <2>6. QED BY <2>3, <2>4, <2>5
<1>5. \A r \in H \cup {q} : r[1] <= a
  BY <1>1
<1>6. QED BY <1>1, <1>4, <1>5 DEF Handling

\* One vendor more.
LEMMA HandlingVendor ==
    ASSUME PlanOK, NEW H \in SUBSET Due, NEW a \in Nat, NEW m \in Nat, NEW k \in Nat,
           NEW vs \in Seq(AVendor), NEW w, Handling(H, "registering", a, <<m, k>>, vs, w),
           VendorsAre(vs, Passed(w)), \A i \in 1..Len(vs) : Carries(vs[i], Passed(w)),
           m \in 1..Len(vs), k > Len(vs[m].attrs)
    PROVE  Handling(H, "registering", a, <<m + 1, 1>>, vs, w)
<1>1. /\ \A r \in Due : r[1] < a => r \in H
      /\ \A r \in H : r[1] <= a
      /\ \A i \in 1..Len(vs) : i >= m => Origin(vs[i].id)[1] = a
      /\ \A i \in 1..Len(vs) : Progress(vs[i], i, H, a, <<m, k>>, w)
  BY DEF Handling
<1>2. \A i \in 1..Len(vs) : i >= m + 1 => i > m
  OBVIOUS
<1>3. ASSUME NEW i \in 1..Len(vs)
      PROVE  Progress(vs[i], i, H, a, <<m + 1, 1>>, w)
  <2>1. PICK v : v = vs[i]
    OBVIOUS
  <2> DEFINE B == AttributesOf(v.id) \cap Passed(w)
  <2>2. SUFFICES ASSUME Origin(v.id)[1] = a, v.id # 0
                 PROVE  /\ i < m + 1 => B \subseteq H
                        /\ i > m + 1 => B \cap H = {}
                        /\ i = m + 1 => UpTo(v.attrs, B, H, 1)
    BY <2>1 DEF Progress
  <2>3. /\ i < m => B \subseteq H
        /\ i > m => B \cap H = {}
        /\ i = m => UpTo(v.attrs, B, H, k)
    BY <1>1, <2>1, <2>2 DEF Progress
  <2>4. ASSUME i = m
        PROVE  B \subseteq H
    <3>1. PICK s : Lists(v.attrs, 0, s, B) /\ \A j \in 1..Len(s) : s[j] \in H <=> j < k
      BY <2>3, <2>4 DEF UpTo
    <3>2. Len(v.attrs) = Len(s) /\ Len(s) \in Nat
      BY <3>1 DEF Lists
    <3>3. \A j \in 1..Len(s) : j < k
      BY <2>1, <2>4, <3>2
    <3>4. \A q \in B : \E j \in 1..Len(s) : s[j] = q
      BY <3>1 DEF Lists
    <3>5. QED BY <3>1, <3>3, <3>4
  <2>5. ASSUME i = m + 1
        PROVE  UpTo(v.attrs, B, H, 1)
    <3>1. B \cap H = {}
      BY <2>3, <2>5
    <3>2. PICK s : Lists(v.attrs, 0, s, B)
      BY <2>1, <2>2 DEF Carries
    <3>3. s \in Seq(B)
      BY <3>2 DEF Lists
    <3>4. \A j \in 1..Len(s) : s[j] \notin H /\ ~(j < 1)
      BY <3>1, <3>3
    <3>5. QED BY <3>2, <3>4 DEF UpTo
  <2>6. i < m + 1 <=> i < m \/ i = m
    OBVIOUS
  <2>7. i > m + 1 => i > m
    OBVIOUS
  <2>8. QED BY <2>3, <2>4, <2>5, <2>6, <2>7
<1>4. QED BY <1>1, <1>2, <1>3 DEF Handling

\* The whole file.
LEMMA HandlingEnds ==
    ASSUME PlanOK, NEW H \in SUBSET Due, NEW a \in Nat, NEW nx, NEW vs, Len(vs) \in Nat, nx[1] \in Nat,
           NEW w, Handling(H, "registering", a, nx, vs, w), nx[1] > Len(vs),
           VendorsAre(vs, Passed(w)), Passed(<<a + 1, 1>>) = Passed(w), NEW z
    PROVE  Handling(H, "directives", a + 1, nx, vs, z)
<1>1. ASSUME NEW q \in Due, q[1] = a
      PROVE  q \in H
  <2>1. PICK id : id = Owner(q)
    OBVIOUS
  <2>2. /\ q \in Places /\ q[1] \in Nat /\ Says(q, "ATTRIBUTE", 3) /\ id # 0 /\ Origin(id)[1] = a
        /\ q \in AttributesOf(id)
    BY <1>1, <2>1, DueFacts
  <2>3. Origin(id) \in Places /\ Mentions(Origin(id), id)
    BY <2>1, <2>2, OwnerMentioned
  <2>4. Origin(id) \in Passed(w) /\ q \in Passed(w)
    <3>1. Precedes(q, <<a + 1, 1>>) /\ Precedes(Origin(id), <<a + 1, 1>>)
      BY <1>1, <2>2 DEF Precedes
    <3>2. QED BY <2>2, <2>3, <3>1 DEF Passed
  <2>5. PICK i \in 1..Len(vs) : vs[i].id = id
    BY <2>3, <2>4 DEF VendorsAre
  <2>6. i < nx[1]
    BY <2>5
  <2>7. AttributesOf(id) \cap Passed(w) \subseteq H
    <3>1. Progress(vs[i], i, H, a, nx, w)
      BY <2>5 DEF Handling
    <3>2. QED BY <2>2, <2>5, <2>6, <3>1 DEF Progress
  <2>8. QED BY <2>2, <2>4, <2>7
<1>2. \A q \in Due : q[1] \in Nat
  BY DueFacts
<1>3. \A q \in Due : q[1] < a + 1 => q \in H
  <2>1. TAKE q \in Due
  <2>2. HAVE q[1] < a + 1
  <2>3. q[1] < a \/ q[1] = a
    BY <1>2, <2>2
  <2>4. QED BY <1>1, <2>3 DEF Handling
<1>4. \A q \in H : q[1] <= a /\ q[1] \in Nat
  BY <1>2 DEF Handling
<1>5. \A q \in H : q[1] <= a + 1 /\ q[1] < a + 1
  BY <1>4
<1>6. QED BY <1>3, <1>5 DEF Handling

-----------------------------------------------------------------------------
(* The steps keep it                                                       *)

\* The dictionary while a file is loaded.
SoFar ==
    /\ PlanOK /\ dict.vendors \in Seq(AVendor) /\ Len(dict.vendors) \in Nat /\ Unique(dict.vendors)
    /\ Base = dict /\ Where = <<at, line>> /\ at \in Nat /\ line \in Nat
    /\ next \in Nat \X Nat /\ at \in 1..Len(plan)
    /\ Passed(Where) \in SUBSET Places /\ VendorsAre(dict.vendors, Passed(Where))
    /\ \A i \in 1..Len(dict.vendors) : Carries(dict.vendors[i], Passed(Where))

LEMMA ReadSoFar == CInv /\ LInv /\ ~strayed /\ Loading => SoFar
<1> SUFFICES ASSUME CInv, LInv, ~strayed, Loading
             PROVE  SoFar
  OBVIOUS
<1>1. PlanOK /\ DictOK /\ at \in Nat /\ line \in Nat /\ next \in Nat \X Nat /\ at \in 1..Len(plan)
  BY DEF CInv, PlanOK, Loading
<1>2. dict.vendors \in Seq(AVendor) /\ Unique(dict.vendors) /\ dict # Null
  BY <1>1, NullAssumption DEF DictOK, Dictionary, Vendors, AVendor
<1>3. Base = dict /\ Where = <<at, line>>
  BY <1>2 DEF Base, Where
<1>4. DictIs(Base, Passed(Where))
  BY DEF LInv, Loading
<1>5. VendorsAre(dict.vendors, Passed(Where))
      /\ \A i \in 1..Len(dict.vendors) : Carries(dict.vendors[i], Passed(Where))
  BY <1>3, <1>4 DEF DictIs
<1>6. Passed(Where) \in SUBSET Places
  BY DEF Passed
<1>7. Len(dict.vendors) \in Nat
  BY <1>2
<1>8. QED BY <1>1, <1>2, <1>3, <1>5, <1>6, <1>7 DEF SoFar

\* What has to be shown of a step that does not end the configuration, and of one that does.
LEMMA CarriedVInv ==
    ASSUME plan' = plan, stage' \notin {"refused", "crashed"},
           stage' = "serving" => at' > Len(plan),
           ~strayed' => \E H \in SUBSET Due :
                          /\ Handling(H, stage', at', next', Base'.vendors, Where')
                          /\ Registry(H, registered', at' - 1)
                          /\ FilesThere(at' - 1)
    PROVE  VInv'
<1>1. ASSUME ~strayed'
      PROVE  /\ \E H \in SUBSET Due' : /\ Handling(H, stage, at, next, Base.vendors, Where)'
                                       /\ Registry(H, registered, at - 1)'
             /\ FilesThere(at - 1)'
  <2>1. PICK H \in SUBSET Due : /\ Handling(H, stage', at', next', Base'.vendors, Where')
                                /\ Registry(H, registered', at' - 1)
                                /\ FilesThere(at' - 1)
    BY <1>1
  <2>2. PICK st, a, nx, vs, w, reg, f :
          /\ st = stage' /\ a = at' /\ nx = next' /\ vs = Base'.vendors /\ w = Where'
          /\ reg = registered' /\ f = at' - 1
    OBVIOUS
  <2>3. Handling(H, st, a, nx, vs, w)' /\ Registry(H, reg, f)' /\ FilesThere(f)'
    BY <2>1, <2>2, VariablesStay
  <2>4. Due' = Due
    BY FilesStay
  <2>5. QED BY <2>2, <2>3, <2>4
<1>2. QED BY <1>1 DEF VInv

LEMMA RefusedVInv ==
    ASSUME plan' = plan, stage' = "refused", ~strayed' => Unacceptable
    PROVE  VInv'
<1>1. Unacceptable' <=> Unacceptable
  BY FilesStay
<1>2. QED BY <1>1 DEF VInv

LEMMA StartVInv ==
    ASSUME CInv, LInv, VInv, StartDict
    PROVE  VInv'
<1>1. /\ stage = "directives" /\ stage' = "loading" /\ dict' = Base /\ line' = 1
      /\ next' = <<Len(Base.vendors) + 1, 1>>
      /\ UNCHANGED <<plan, at, registered, strayed>>
  BY DEF StartDict, Reading
<1>2. Base' = Base
  BY <1>1, BaseOK, NullAssumption DEF Base
<1>3. Where = <<at, 1>> /\ Where' = <<at, 1>>
  BY <1>1 DEF Where, Loading
<1>4. ASSUME ~strayed
      PROVE  \E H \in SUBSET Due :
               /\ Handling(H, stage', at', next', Base'.vendors, Where')
               /\ Registry(H, registered', at' - 1)
               /\ FilesThere(at' - 1)
  <2>1. FilesThere(at - 1)
    BY <1>1, <1>4 DEF VInv
  <2>2. PICK H \in SUBSET Due : /\ Handling(H, stage, at, next, Base.vendors, Where)
                                /\ Registry(H, registered, at - 1)
    BY <1>1, <1>4 DEF VInv
  <2>3. PICK vs, w, a, nx : vs = Base.vendors /\ w = Where /\ a = at /\ nx = next /\ a \in Nat
    BY DEF CInv
  <2>4. \A i \in 1..Len(vs) : Origin(vs[i].id)[1] < a
    <3>1. VendorsAre(vs, Passed(w))
      BY <1>1, <1>4, <2>3 DEF LInv, DictIs
    <3>2. ASSUME NEW o \in Passed(<<a, 1>>)
          PROVE  o[1] < a
      <4>1. o \in Places /\ Precedes(o, <<a, 1>>)
        BY DEF Passed
      <4>2. o[2] \in Nat /\ o[2] >= 1
        BY <4>1, PlaceFacts DEF CInv, PlanOK
      <4>3. QED BY <4>1, <4>2 DEF Precedes
    <3>3. QED BY <1>3, <2>3, <3>1, <3>2 DEF VendorsAre
  <2>5. Len(vs) \in Nat
    BY <2>3, BaseOK
  <2>6. Handling(H, "directives", a, nx, vs, w)
    BY <1>1, <2>2, <2>3
  <2>7. Handling(H, "loading", a, <<Len(vs) + 1, 1>>, vs, w)
    BY <2>3, <2>4, <2>5, <2>6, HandlingBegins
  <2>8. Handling(H, stage', at', next', Base'.vendors, Where')
    BY <1>1, <1>2, <1>3, <2>3, <2>7
  <2>9. QED BY <1>1, <2>1, <2>2, <2>8
<1>5. QED BY <1>1, <1>4, CarriedVInv

LEMMA NoFileVInv ==
    ASSUME CInv, VInv, NoFile
    PROVE  VInv'
<1>1. /\ Reading /\ plan[at].kind = "radius_dict" /\ plan[at].file = Null
      /\ stage' = "refused" /\ plan' = plan
  BY DEF NoFile, Refuse, Directive
<1>2. at \in DOMAIN plan
  BY <1>1, DirectiveFacts DEF CInv
<1>3. Unacceptable
  BY <1>1, <1>2 DEF Unacceptable
<1>4. QED BY <1>1, <1>3, RefusedVInv

\* A directive that defines a variable.
LEMMA DefineVInv ==
    ASSUME CInv, LInv, VInv, Define \/ DefineAgain
    PROVE  VInv'
<1>1. PICK n : n = Directive.name
  OBVIOUS
<1>2. /\ stage = "directives" /\ at \in 1..Len(plan) /\ plan[at].kind = "define"
      /\ plan[at].name = n /\ UNCHANGED <<plan, strayed>>
  BY <1>1, DirectiveFacts DEF Define, DefineAgain, Refuse, Reading, Directive
<1>3. PICK a \in Nat \ {0} : a = at
  BY <1>2 DEF CInv
<1>4. PICK f \in Nat : f = a - 1
  OBVIOUS
<1>5. a = f + 1 /\ at - 1 = f /\ Len(plan) \in Nat /\ a <= Len(plan) /\ PlanOK
  BY <1>2, <1>3, <1>4 DEF CInv, PlanOK
<1>6. CASE \/ Define
           \/ DefineAgain /\ registered[n].by = "map"
  <2>1. /\ stage' = stage /\ dict' = dict /\ at' = at + 1
        /\ \/ n \notin DOMAIN registered /\ registered' = With(registered, n, [by |-> "map", data |-> 0])
           \/ n \in DOMAIN registered /\ registered[n].by = "map" /\ registered' = registered
    BY <1>1, <1>6 DEF Define, DefineAgain, Added, With
  <2>2. ASSUME ~strayed
        PROVE  \E H \in SUBSET Due :
                 /\ Handling(H, stage', at', next', Base'.vendors, Where')
                 /\ Registry(H, registered', at' - 1)
                 /\ FilesThere(at' - 1)
    <3>1. FilesThere(f)
      BY <1>2, <1>5, <2>2 DEF VInv
    <3>2. PICK H \in SUBSET Due : /\ Handling(H, stage, at, next, Base.vendors, Where)
                                  /\ Registry(H, registered, f)
      BY <1>2, <1>5, <2>2 DEF VInv
    <3>3. PICK nx, vs, w, ny, ws, z, reg, new :
            /\ nx = next /\ vs = Base.vendors /\ w = Where /\ reg = registered
            /\ ny = next' /\ ws = Base'.vendors /\ z = Where' /\ new = registered'
      OBVIOUS
    <3>4. Handling(H, "directives", a + 1, ny, ws, z)
      <4>1. Handling(H, "directives", a, nx, vs, w) /\ plan[a].kind # "radius_dict"
        BY <1>2, <1>3, <3>2, <3>3
      <4>2. QED BY <1>5, <4>1, HandlingPast
    <3>5. Registry(H, new, f + 1)
      <4>1. Registry(H, reg, f) /\ plan[f + 1].kind = "define" /\ n = plan[f + 1].name
        BY <1>2, <1>3, <1>5, <3>2, <3>3
      <4>2. \/ n \notin DOMAIN reg /\ new = With(reg, n, [by |-> "map", data |-> 0])
            \/ n \in DOMAIN reg /\ reg[n].by = "map" /\ new = reg
        BY <2>1, <3>3
      <4>3. QED BY <4>1, <4>2, RegistryDefined
    <3>6. FilesThere(f + 1)
      <4>1. plan[f + 1].kind # "radius_dict"
        BY <1>2, <1>3, <1>5
      <4>2. \A g \in 1..f + 1 : g \in 1..f \/ g = f + 1
        OBVIOUS
      <4>3. QED BY <3>1, <4>1, <4>2 DEF FilesThere
    <3>7. at' = a + 1 /\ at' - 1 = f + 1 /\ stage' = "directives"
      <4>1. at' = a + 1 /\ stage' = "directives"
        BY <1>2, <1>3, <2>1
      <4>2. a + 1 - 1 = f + 1
        BY <1>5
      <4>3. QED BY <4>1, <4>2
    <3>8. QED BY <3>3, <3>4, <3>5, <3>6, <3>7
  <2>3. QED BY <1>2, <2>1, <2>2, CarriedVInv
<1>7. CASE DefineAgain /\ registered[n].by # "map"
  <2>1. stage' = "refused" /\ n \in DOMAIN registered
    BY <1>1, <1>7 DEF DefineAgain, Refuse
  <2>2. ASSUME ~strayed
        PROVE  Unacceptable
    <3>1. PICK H \in SUBSET Due : Registry(H, registered, f)
      BY <1>2, <1>5, <2>2 DEF VInv
    <3>2. PICK q \in H : DueName(q) = n /\ ~Defined(n, q[1])
      BY <1>7, <2>1, <3>1 DEF Registry
    <3>3. Defined(n, a)
      BY <1>2, <1>3 DEF Defined
    <3>4. Defined(n, Len(plan))
      BY <1>5, <3>3, DefinedMore
    <3>5. QED BY <3>2, <3>4 DEF Unacceptable
  <2>3. QED BY <1>2, <2>1, <2>2, RefusedVInv
<1>8. QED BY <1>6, <1>7

\* A line of a file.
LEMMA LineVInv ==
    ASSUME CInv, LInv, VInv, CInv', LInv', [ConfigNext]_<<vars, configVars>>,
           DeclareVendor \/ BeginById \/ BeginByName \/ EndVendor \/ Attribute \/ Ignored
    PROVE  VInv'
<1>1. stage = "loading" /\ UNCHANGED <<plan, stage, at, next, registered>>
  BY DEF DeclareVendor, BeginById, BeginByName, EndVendor, Attribute, Ignored, Load
<1>2. ~strayed' => ~strayed
  <2>1. CASE BeginByName
    <3>1. PICK found : strayed' = (strayed \/ FirstId(found) # FirstId(Meant(Args[1])))
      BY <2>1 DEF BeginByName
    <3>2. QED BY <3>1, Zenon
  <2>2. CASE ~BeginByName
    BY <2>2 DEF DeclareVendor, BeginById, EndVendor, Attribute, Ignored
  <2>3. QED BY <2>1, <2>2
<1>3. ASSUME ~strayed'
      PROVE  \E H \in SUBSET Due :
               /\ Handling(H, stage', at', next', Base'.vendors, Where')
               /\ Registry(H, registered', at' - 1)
               /\ FilesThere(at' - 1)
  <2>1. Loading /\ Loading'
    BY <1>1 DEF Loading
  <2>2. PICK H \in SUBSET Due : /\ Handling(H, stage, at, next, Base.vendors, Where)
                                /\ Registry(H, registered, at - 1)
                                /\ FilesThere(at - 1)
    BY <1>1, <1>2, <1>3 DEF VInv
  <2>3. PICK a, l, nx, vs, w, ws, z :
          /\ a = at /\ l = line /\ nx = next /\ vs = dict.vendors /\ w = Where
          /\ ws = dict'.vendors /\ z = Where'
    OBVIOUS
  <2>4. /\ PlanOK /\ vs \in Seq(AVendor) /\ a \in Nat /\ l \in Nat /\ nx[1] \in Nat
        /\ w = <<a, l>> /\ VendorsAre(vs, Passed(<<a, l>>)) /\ Base.vendors = vs
    BY <1>2, <1>3, <2>1, <2>3, ReadSoFar DEF SoFar
  <2>5. /\ ws \in Seq(AVendor) /\ Unique(ws) /\ Base'.vendors = ws
        /\ VendorsAre(ws, Passed(z))' /\ (Passed(z) \in SUBSET Places)'
    <3>1. (CInv /\ LInv /\ ~strayed /\ Loading => SoFar)'
      BY ReadSoFar, PTL
    <3>2. QED BY <1>3, <2>1, <2>3, <3>1 DEF SoFar, Unique
  <2>6. PICK R \in SUBSET Places : VendorsAre(ws, R)
    <3>1. PICK R : R = Passed(z)
      OBVIOUS
    <3>2. Passed(z)' = R /\ Places' = Places /\ VendorsAre(ws, R)' = VendorsAre(ws, R)
      BY <1>1, <3>1, DictStays, FilesStay
    <3>3. QED BY <2>5, <3>2
  <2>7. DOMAIN vs \subseteq DOMAIN ws /\ \A i \in DOMAIN vs : ws[i].id = vs[i].id
    <3>1. dict # Null
      BY <1>1, NullAssumption DEF CInv, DictOK
    <3>2. Grown(dict.vendors, dict'.vendors)
      BY <3>1, DictGrows
    <3>3. QED BY <2>3, <3>2 DEF Grown
  <2>8. Handling(H, "loading", a, nx, vs, w)
    BY <1>1, <2>2, <2>3, <2>4
  <2>9. Handling(H, "loading", a, nx, ws, z)
    BY <2>4, <2>5, <2>6, <2>7, <2>8, HandlingLine
  <2>10. Handling(H, stage', at', next', Base'.vendors, Where')
    BY <1>1, <2>3, <2>5, <2>9
  <2>11. Registry(H, registered', at' - 1) /\ FilesThere(at' - 1)
    BY <1>1, <2>2
  <2>12. QED BY <2>10, <2>11
<1>4. QED BY <1>1, <1>3, CarriedVInv

\* The scan crashes over a vendor that has no name.
LEMMA FallsVInv ==
    ASSUME CInv, LInv, BeginFalls
    PROVE  VInv'
<1>1. /\ stage = "loading" /\ stage' = "crashed" /\ UNCHANGED <<plan, dict, strayed>>
      /\ Nameless # {}
  BY DEF BeginFalls, Falls
<1>2. ASSUME ~strayed
      PROVE  \E id \in Mentioned : NameOf(id) = Null
  <2>1. PICK vs, w : vs = dict.vendors /\ w = Where
    OBVIOUS
  <2>2. PlanOK /\ vs \in Seq(AVendor) /\ VendorsAre(vs, Passed(w)) /\ Passed(w) \in SUBSET Places
    BY <1>1, <1>2, <2>1, ReadSoFar DEF Loading, SoFar
  <2>3. PICK i \in 1..Len(vs) : vs[i].name = Null
    BY <1>1, <2>1, <2>2 DEF Nameless
  <2>4. PICK id : id = vs[i].id
    OBVIOUS
  <2>5. Origin(id) \in Places /\ Mentions(Origin(id), id) /\ NameOf(id) = Null
    BY <2>2, <2>3, <2>4 DEF VendorsAre
  <2>6. id \in Mentioned
    BY <2>2, <2>5, OriginFacts
  <2>7. QED BY <2>5, <2>6
<1>3. Mentioned' = Mentioned /\ \A id : NameOf(id)' = NameOf(id)
  BY <1>1, FilesStay
<1>4. (\E id \in Mentioned : NameOf(id) = Null)' <=> \E id \in Mentioned : NameOf(id) = Null
  BY <1>3
<1>5. QED BY <1>1, <1>2, <1>4 DEF VInv

\* The whole file was read.
LEMMA EndOfFileVInv ==
    ASSUME CInv, LInv, VInv, EndOfFile
    PROVE  VInv'
<1>1. /\ stage = "loading" /\ stage' = "registering"
      /\ UNCHANGED <<plan, at, line, next, dict, registered, strayed>>
  BY DEF EndOfFile
<1>2. Base' = Base /\ Where' = Where /\ Loading
  BY <1>1 DEF Base, Where, Loading
<1>3. ASSUME ~strayed
      PROVE  \E H \in SUBSET Due :
               /\ Handling(H, stage', at', next', Base'.vendors, Where')
               /\ Registry(H, registered', at' - 1)
               /\ FilesThere(at' - 1)
  <2>1. PICK H \in SUBSET Due : /\ Handling(H, stage, at, next, Base.vendors, Where)
                                /\ Registry(H, registered, at - 1)
                                /\ FilesThere(at - 1)
    BY <1>1, <1>3 DEF VInv
  <2>2. PICK a, l, nx, vs, w : a = at /\ l = line /\ nx = next /\ vs = dict.vendors /\ w = Where
    OBVIOUS
  <2>3. /\ PlanOK /\ Len(vs) \in Nat /\ a \in Nat /\ l \in Nat /\ nx[1] \in Nat
        /\ w = <<a, l>> /\ VendorsAre(vs, Passed(w)) /\ Base.vendors = vs
        /\ \A i \in 1..Len(vs) : Carries(vs[i], Passed(w))
    BY <1>2, <1>3, <2>2, ReadSoFar DEF SoFar
  <2>4. Handling(H, "loading", a, nx, vs, w)
    BY <1>1, <2>1, <2>2, <2>3
  <2>5. Handling(H, "registering", a, nx, vs, w)
    BY <2>3, <2>4, HandlingRegisters
  <2>6. Handling(H, stage', at', next', Base'.vendors, Where')
    BY <1>1, <1>2, <2>2, <2>3, <2>5
  <2>7. Registry(H, registered', at' - 1) /\ FilesThere(at' - 1)
    BY <1>1, <2>1
  <2>8. QED BY <2>6, <2>7
<1>4. QED BY <1>1, <1>3, CarriedVInv

\* The attribute that gets its variable next.
LEMMA RegisteringNow ==
    ASSUME CInv, LInv, ~strayed, Registering, NEW H \in SUBSET Due,
           Handling(H, "registering", at, next, dict.vendors, Where)
    PROVE  \E q \in Due :
             /\ q \notin H /\ q[1] = at /\ NameNext = DueName(q)
             /\ VsaData(VendorNext.id, AttrNext.code) = VsaData(Owner(q), Atoi(Arg(q, 2)))
             /\ Handling(H \cup {q}, "registering", at, <<next[1], next[2] + 1>>, dict.vendors, Where)
<1>1. PICK a, l, m, k, vs, w :
        a = at /\ l = line /\ m = next[1] /\ k = next[2] /\ vs = dict.vendors /\ w = Where
  OBVIOUS
<1>2. /\ PlanOK /\ vs \in Seq(AVendor) /\ Len(vs) \in Nat /\ Unique(vs) /\ a \in Nat /\ l \in Nat
      /\ w = <<a, l>> /\ VendorsAre(vs, Passed(w)) /\ Passed(w) \in SUBSET Places
      /\ \A i \in 1..Len(vs) : Carries(vs[i], Passed(w))
  BY <1>1, ReadSoFar DEF Registering, Loading, SoFar
<1>3. next = <<m, k>> /\ m \in Nat \ {0} /\ k \in Nat \ {0}
  BY <1>1 DEF CInv
<1>4. PICK v : v = vs[m]
  OBVIOUS
<1>5. m \in 1..Len(vs) /\ k <= Len(v.attrs) /\ VendorNext = v
  BY <1>1, <1>2, <1>3, <1>4 DEF Registering, VendorNext
<1>6. Handling(H, "registering", a, <<m, k>>, vs, w)
  BY <1>1, <1>3
<1>7. Origin(v.id)[1] = a /\ Progress(v, m, H, a, <<m, k>>, w)
  BY <1>3, <1>4, <1>5, <1>6 DEF Handling
<1>8. Carries(v, Passed(w)) /\ v.name = NameOf(v.id)
  BY <1>2, <1>4, <1>5 DEF VendorsAre
<1>9. v.id # 0
  <2>1. v.id = 0 => Len(v.attrs) = 0
    BY <1>8 DEF Carries
  <2>2. QED BY <1>3, <1>5, <2>1
<1>10. PICK A : A = AttributesOf(v.id) \cap Passed(w)
  OBVIOUS
<1>11. UpTo(v.attrs, A, H, k)
  BY <1>7, <1>9, <1>10 DEF Progress
<1>12. PICK s : Lists(v.attrs, 0, s, A) /\ \A j \in 1..Len(s) : s[j] \in H <=> j < k
  BY <1>11 DEF UpTo
<1>13. Len(v.attrs) = Len(s) /\ Len(s) \in Nat /\ s \in Seq(A)
  BY <1>12 DEF Lists
<1>14. k \in 1..Len(s)
  BY <1>3, <1>5, <1>13
<1>15. PICK q \in A : q = s[k]
  BY <1>13, <1>14
<1>16. q \notin H
  BY <1>12, <1>14, <1>15
<1>17. q \in Places /\ q[1] \in Nat /\ q[1] >= a /\ Owner(q) = v.id /\ Says(q, "ATTRIBUTE", 3)
  BY <1>2, <1>7, <1>9, <1>10, GivenHere
<1>18. q[1] = a
  <2>1. Precedes(q, <<a, l>>)
    BY <1>2, <1>10 DEF Passed
  <2>2. a \in Nat
    BY <1>2
  <2>3. q[1] < a \/ q[1] = a
    BY <2>1 DEF Precedes
  <2>4. QED BY <1>17, <2>2, <2>3
<1>19. q \in Due
  BY <1>7, <1>9, <1>17, <1>18 DEF Due
<1>20. AttrNext = DefOf(q)
  <2>1. v.attrs[0 + k] = DefOf(s[k])
    BY <1>12, <1>14 DEF Lists
  <2>2. 0 + k = k
    BY <1>3
  <2>3. AttrNext = v.attrs[k]
    BY <1>1, <1>5 DEF AttrNext
  <2>4. QED BY <1>15, <2>1, <2>2, <2>3
<1>21. AttrNext.code = Atoi(Arg(q, 2)) /\ AttrNext.name = Arg(q, 1)
  BY <1>20 DEF DefOf
<1>22. NameNext = DueName(q)
  BY <1>5, <1>8, <1>17, <1>21 DEF NameNext, DueName
<1>23. VsaData(VendorNext.id, AttrNext.code) = VsaData(Owner(q), Atoi(Arg(q, 2)))
  BY <1>5, <1>17, <1>21
<1>24. Handling(H \cup {q}, "registering", a, <<m, k + 1>>, vs, w)
  <2>1. \A i, j \in 1..Len(vs) : vs[i].id = vs[j].id => i = j
    BY <1>2 DEF Unique
  <2>2. QED BY <1>2, <1>3, <1>4, <1>5, <1>6, <1>7, <1>9, <1>10, <1>12, <1>14, <1>15, <1>18, <2>1,
               HandlingNext
<1>25. <<next[1], next[2] + 1>> = <<m, k + 1>>
  BY <1>1
<1>26. QED BY <1>1, <1>16, <1>18, <1>19, <1>22, <1>23, <1>24, <1>25

LEMMA RegisterVInv ==
    ASSUME CInv, LInv, VInv, Register \/ RegisterAgain
    PROVE  VInv'
<1>1. stage = "registering" /\ Registering /\ UNCHANGED <<plan, strayed>>
  BY DEF Register, RegisterAgain, Registering, Refuse
<1>2. PICK n : n = NameNext
  OBVIOUS
<1>3. ASSUME ~strayed
      PROVE  \E H \in SUBSET Due : \E q \in Due :
               /\ Registry(H, registered, at - 1) /\ FilesThere(at - 1)
               /\ q \notin H /\ q[1] = at /\ n = DueName(q) /\ PlanOK /\ at \in Nat \ {0}
               /\ \A r \in H : r[1] <= at
               /\ VsaData(VendorNext.id, AttrNext.code) = VsaData(Owner(q), Atoi(Arg(q, 2)))
               /\ Handling(H \cup {q}, "registering", at, <<next[1], next[2] + 1>>, Base.vendors, Where)
  <2>1. PICK H \in SUBSET Due : /\ Handling(H, stage, at, next, Base.vendors, Where)
                                /\ Registry(H, registered, at - 1)
                                /\ FilesThere(at - 1)
    BY <1>1, <1>3 DEF VInv
  <2>2. Base.vendors = dict.vendors /\ PlanOK /\ at \in Nat \ {0}
    BY <1>1, <1>3, ReadSoFar DEF Loading, SoFar
  <2>3. Handling(H, "registering", at, next, dict.vendors, Where)
    BY <1>1, <2>1, <2>2
  <2>4. PICK q \in Due :
          /\ q \notin H /\ q[1] = at /\ NameNext = DueName(q)
          /\ VsaData(VendorNext.id, AttrNext.code) = VsaData(Owner(q), Atoi(Arg(q, 2)))
          /\ Handling(H \cup {q}, "registering", at, <<next[1], next[2] + 1>>, dict.vendors, Where)
    BY <1>1, <1>3, <2>3, RegisteringNow
  <2>5. \A r \in H : r[1] <= at
    <3>1. PICK st, a, nx, vs, w :
            st = stage /\ a = at /\ nx = next /\ vs = Base.vendors /\ w = Where
      OBVIOUS
    <3>2. Handling(H, st, a, nx, vs, w)
      BY <2>1, <3>1
    <3>3. \A r \in H : r[1] <= a
      BY <3>2 DEF Handling
    <3>4. QED BY <3>1, <3>3
  <2>6. QED BY <1>2, <2>1, <2>2, <2>4, <2>5
<1>4. CASE Register \/ (RegisterAgain /\ registered[n].by = "map")
  <2>1. /\ stage' = stage /\ next' = <<next[1], next[2] + 1>> /\ UNCHANGED <<at, line, dict>>
        /\ \/ /\ n \notin DOMAIN registered
              /\ registered' = With(registered, n,
                                    [by |-> "radius", data |-> VsaData(VendorNext.id, AttrNext.code)])
           \/ n \in DOMAIN registered /\ registered[n].by = "map" /\ registered' = registered
    BY <1>2, <1>4 DEF Register, RegisterAgain, Added, With
  <2>2. Base' = Base /\ Where' = Where
    BY <2>1 DEF Base, Where, Loading
  <2>3. ASSUME ~strayed
        PROVE  \E H \in SUBSET Due :
                 /\ Handling(H, stage', at', next', Base'.vendors, Where')
                 /\ Registry(H, registered', at' - 1)
                 /\ FilesThere(at' - 1)
    <3>1. PICK H \in SUBSET Due, q \in Due :
            /\ Registry(H, registered, at - 1) /\ FilesThere(at - 1)
            /\ q \notin H /\ q[1] = at /\ n = DueName(q) /\ PlanOK /\ at \in Nat \ {0}
            /\ \A r \in H : r[1] <= at
            /\ VsaData(VendorNext.id, AttrNext.code) = VsaData(Owner(q), Atoi(Arg(q, 2)))
            /\ Handling(H \cup {q}, "registering", at, <<next[1], next[2] + 1>>, Base.vendors, Where)
      BY <1>3, <2>3
    <3>2. Handling(H \cup {q}, stage', at', next', Base'.vendors, Where')
      BY <1>1, <2>1, <2>2, <3>1
    <3>3. PICK reg, new, f, d :
            /\ reg = registered /\ new = registered' /\ f = at - 1
            /\ d = VsaData(Owner(q), Atoi(Arg(q, 2)))
      OBVIOUS
    <3>4. f \in Nat /\ at = f + 1
      BY <3>1, <3>3
    <3>5. \/ /\ DueName(q) \notin DOMAIN reg
             /\ new = With(reg, DueName(q), [by |-> "radius", data |-> d])
          \/ DueName(q) \in DOMAIN reg /\ reg[DueName(q)].by = "map" /\ new = reg
      BY <2>1, <3>1, <3>3
    <3>6. Registry(H, reg, f) /\ (\A r \in H : r[1] <= f + 1) /\ q[1] = f + 1
      BY <3>1, <3>3, <3>4
    <3>7. Registry(H \cup {q}, new, f)
      BY <3>1, <3>3, <3>4, <3>5, <3>6, RegistryHandled
    <3>8. Registry(H \cup {q}, registered', at' - 1) /\ FilesThere(at' - 1)
      BY <2>1, <3>1, <3>3, <3>7
    <3>9. H \cup {q} \in SUBSET Due
      OBVIOUS
    <3>10. QED BY <3>2, <3>8, <3>9
  <2>4. QED BY <1>1, <2>1, <2>3, CarriedVInv
<1>5. CASE RegisterAgain /\ registered[n].by # "map"
  <2>1. stage' = "refused" /\ n \in DOMAIN registered
    BY <1>2, <1>5 DEF RegisterAgain, Refuse
  <2>2. ASSUME ~strayed
        PROVE  Unacceptable
    <3>1. PICK H \in SUBSET Due, q \in Due :
            Registry(H, registered, at - 1) /\ q \notin H /\ n = DueName(q)
      BY <1>3, <2>2
    <3>2. PICK r \in H : DueName(r) = n /\ ~Defined(n, r[1])
      BY <1>5, <2>1, <3>1 DEF Registry
    <3>3. r \in Due /\ q \in Due \ {r} /\ DueName(q) = DueName(r) /\ ~Defined(DueName(r), r[1])
      BY <3>1, <3>2
    <3>4. QED BY <3>3 DEF Unacceptable
  <2>3. QED BY <1>1, <2>1, <2>2, RefusedVInv
<1>6. QED BY <1>4, <1>5

LEMMA NextVendorVInv ==
    ASSUME CInv, LInv, VInv, NextVendor
    PROVE  VInv'
<1>1. /\ stage = "registering" /\ stage' = stage /\ next' = <<next[1] + 1, 1>>
      /\ next[1] <= Len(dict.vendors) /\ next[2] > Len(VendorNext.attrs)
      /\ UNCHANGED <<plan, at, line, dict, registered, strayed>>
  BY DEF NextVendor
<1>2. Base' = Base /\ Where' = Where /\ Loading
  BY <1>1 DEF Base, Where, Loading
<1>3. ASSUME ~strayed
      PROVE  \E H \in SUBSET Due :
               /\ Handling(H, stage', at', next', Base'.vendors, Where')
               /\ Registry(H, registered', at' - 1)
               /\ FilesThere(at' - 1)
  <2>1. PICK H \in SUBSET Due : /\ Handling(H, stage, at, next, Base.vendors, Where)
                                /\ Registry(H, registered, at - 1)
                                /\ FilesThere(at - 1)
    BY <1>1, <1>3 DEF VInv
  <2>2. PICK a, m, k, vs, w :
          a = at /\ m = next[1] /\ k = next[2] /\ vs = dict.vendors /\ w = Where
    OBVIOUS
  <2>3. /\ PlanOK /\ vs \in Seq(AVendor) /\ Len(vs) \in Nat /\ a \in Nat
        /\ VendorsAre(vs, Passed(w)) /\ Base.vendors = vs
        /\ \A i \in 1..Len(vs) : Carries(vs[i], Passed(w))
    BY <1>2, <1>3, <2>2, ReadSoFar DEF SoFar
  <2>4. next = <<m, k>> /\ m \in Nat \ {0} /\ k \in Nat \ {0}
    BY <2>2 DEF CInv
  <2>5. m \in 1..Len(vs) /\ k > Len(vs[m].attrs)
    BY <1>1, <2>2, <2>3, <2>4 DEF VendorNext
  <2>6. Handling(H, "registering", a, <<m, k>>, vs, w)
    BY <1>1, <2>1, <2>2, <2>3, <2>4
  <2>7. Handling(H, "registering", a, <<m + 1, 1>>, vs, w)
    BY <2>3, <2>4, <2>5, <2>6, HandlingVendor
  <2>8. Handling(H, stage', at', next', Base'.vendors, Where')
    BY <1>1, <1>2, <2>2, <2>3, <2>7
  <2>9. Registry(H, registered', at' - 1) /\ FilesThere(at' - 1)
    BY <1>1, <2>1
  <2>10. QED BY <2>8, <2>9
<1>4. QED BY <1>1, <1>3, CarriedVInv

\* All vendors of the file have their variables.
LEMMA EndDictVInv ==
    ASSUME CInv, LInv, VInv, EndDict
    PROVE  VInv'
<1>1. /\ stage = "registering" /\ stage' = "directives" /\ at' = at + 1
      /\ next[1] > Len(dict.vendors)
      /\ UNCHANGED <<plan, line, next, dict, registered, strayed>>
  BY DEF EndDict
<1>2. Base' = Base /\ Loading
  BY <1>1 DEF Base, Loading
<1>3. ASSUME ~strayed
      PROVE  \E H \in SUBSET Due :
               /\ Handling(H, stage', at', next', Base'.vendors, Where')
               /\ Registry(H, registered', at' - 1)
               /\ FilesThere(at' - 1)
  <2>1. PICK H \in SUBSET Due : /\ Handling(H, stage, at, next, Base.vendors, Where)
                                /\ Registry(H, registered, at - 1)
                                /\ FilesThere(at - 1)
    BY <1>1, <1>3 DEF VInv
  <2>2. PICK a, l, nx, vs, w, z, reg, f :
          /\ a = at /\ l = line /\ nx = next /\ vs = dict.vendors /\ w = Where /\ z = Where'
          /\ reg = registered /\ f = at - 1
    OBVIOUS
  <2>3. /\ PlanOK /\ Len(vs) \in Nat /\ a \in 1..Len(plan) /\ l \in Nat /\ w = <<a, l>>
        /\ VendorsAre(vs, Passed(w)) /\ Base.vendors = vs /\ nx[1] \in Nat
    BY <1>2, <1>3, <2>2, ReadSoFar DEF SoFar
  <2>4. a \in Nat /\ f \in Nat /\ a = f + 1 /\ at' = a + 1 /\ at' - 1 = f + 1
    <3>1. a \in Nat \ {0} /\ f = a - 1 /\ at' = a + 1
      BY <1>1, <2>2 DEF CInv
    <3>2. QED BY <3>1
  <2>5. /\ plan[a].kind = "radius_dict" /\ plan[a].file # Null
        /\ plan[a].file \in Seq(ALine) /\ l > Len(plan[a].file)
    BY <1>1, <1>2, <2>2 DEF CInv, LInv, Directive
  <2>6. Passed(<<a + 1, 1>>) = Passed(w)
    <3>1. Passed(<<at + 1, 1>>) = Passed(<<at, l>>)
      BY <2>2, <2>3, <2>5, PassedOn
    <3>2. QED BY <2>2, <2>3, <3>1
  <2>7. Handling(H, "registering", a, nx, vs, w)
    BY <1>1, <2>1, <2>2, <2>3
  <2>8. nx[1] > Len(vs)
    BY <1>1, <2>2
  <2>9. Handling(H, "directives", a + 1, nx, vs, z)
    BY <2>3, <2>4, <2>6, <2>7, <2>8, HandlingEnds
  <2>10. Registry(H, reg, f + 1)
    <3>1. Registry(H, reg, f) /\ plan[f + 1].kind # "define"
      BY <2>1, <2>2, <2>4, <2>5
    <3>2. QED BY <2>4, <3>1, RegistryPast
  <2>11. FilesThere(f + 1)
    <3>1. FilesThere(f) /\ plan[f + 1].file # Null
      BY <2>1, <2>2, <2>4, <2>5
    <3>2. \A g \in 1..f + 1 : g \in 1..f \/ g = f + 1
      BY <2>4
    <3>3. QED BY <3>1, <3>2 DEF FilesThere
  <2>12. Handling(H, stage', at', next', Base'.vendors, Where')
    BY <1>1, <1>2, <2>2, <2>3, <2>4, <2>9
  <2>13. QED BY <1>1, <2>2, <2>4, <2>10, <2>11, <2>12
<1>4. QED BY <1>1, <1>3, CarriedVInv

LEMMA ConfiguredVInv ==
    ASSUME CInv, VInv, Configured
    PROVE  VInv'
<1>1. /\ stage = "directives" /\ stage' = "serving" /\ at > Len(plan) /\ dict' = Base
      /\ UNCHANGED <<plan, at, line, next, registered, strayed>>
  BY DEF Configured
<1>2. Base' = Base /\ Where' = Where
  BY <1>1, BaseOK, NullAssumption DEF Base, Where, Loading
<1>3. ASSUME ~strayed
      PROVE  \E H \in SUBSET Due :
               /\ Handling(H, stage', at', next', Base'.vendors, Where')
               /\ Registry(H, registered', at' - 1)
               /\ FilesThere(at' - 1)
  <2>1. PICK H \in SUBSET Due : /\ Handling(H, stage, at, next, Base.vendors, Where)
                                /\ Registry(H, registered, at - 1)
                                /\ FilesThere(at - 1)
    BY <1>1, <1>3 DEF VInv
  <2>2. PICK a, nx, vs, w : a = at /\ nx = next /\ vs = Base.vendors /\ w = Where
    OBVIOUS
  <2>3. Handling(H, "directives", a, nx, vs, w)
    BY <1>1, <2>1, <2>2
  <2>4. Handling(H, "serving", a, nx, vs, w)
    BY <2>3 DEF Handling
  <2>5. Handling(H, stage', at', next', Base'.vendors, Where')
    BY <1>1, <1>2, <2>2, <2>4
  <2>6. QED BY <1>1, <2>1, <2>5
<1>4. QED BY <1>1, <1>3, CarriedVInv

LEMMA StillVInv ==
    ASSUME VInv, UNCHANGED configVars
    PROVE  VInv'
<1>1. UNCHANGED <<plan, stage, at, line, next, dict, registered, strayed>>
  BY DEF configVars
<1>2. Base' = Base /\ Where' = Where
  BY <1>1 DEF Base, Where, Loading
<1>3. CASE stage \notin {"refused", "crashed"}
  <2>1. ~strayed' => \E H \in SUBSET Due :
                       /\ Handling(H, stage', at', next', Base'.vendors, Where')
                       /\ Registry(H, registered', at' - 1)
                       /\ FilesThere(at' - 1)
    BY <1>1, <1>2, <1>3 DEF VInv
  <2>2. stage' = "serving" => at' > Len(plan)
    BY <1>1 DEF VInv
  <2>3. QED BY <1>1, <1>3, <2>1, <2>2, CarriedVInv
<1>4. CASE stage = "refused"
  BY <1>1, <1>4, RefusedVInv DEF VInv
<1>5. CASE stage = "crashed"
  <2>1. Mentioned' = Mentioned /\ \A id : NameOf(id)' = NameOf(id)
    BY <1>1, FilesStay
  <2>2. (\E id \in Mentioned : NameOf(id) = Null)' <=> \E id \in Mentioned : NameOf(id) = Null
    BY <2>1
  <2>3. QED BY <1>1, <1>5, <2>2 DEF VInv
<1>6. QED BY <1>3, <1>4, <1>5

LEMMA StepVInv ==
    ASSUME CInv, LInv, VInv, CInv', LInv', [ConfigNext]_<<vars, configVars>>
    PROVE  VInv'
<1>1. CASE UNCHANGED configVars
  BY <1>1, StillVInv
<1>2. CASE Configure
  <2>1. CASE Define \/ DefineAgain
    BY <2>1, DefineVInv
  <2>2. CASE StartDict
    BY <2>2, StartVInv
  <2>3. CASE NoFile
    BY <2>3, NoFileVInv
  <2>4. CASE DeclareVendor \/ BeginById \/ BeginByName \/ EndVendor \/ Attribute \/ Ignored
    BY <2>4, LineVInv
  <2>5. CASE BeginFalls
    BY <2>5, FallsVInv
  <2>6. CASE EndOfFile
    BY <2>6, EndOfFileVInv
  <2>7. CASE Register \/ RegisterAgain
    BY <2>7, RegisterVInv
  <2>8. CASE NextVendor
    BY <2>8, NextVendorVInv
  <2>9. CASE EndDict
    BY <2>9, EndDictVInv
  <2>10. CASE Configured
    BY <2>10, ConfiguredVInv
  <2>11. QED BY <1>2, <2>1, <2>2, <2>3, <2>4, <2>5, <2>6, <2>7, <2>8, <2>9, <2>10 DEF Configure
<1>3. QED BY <1>1, <1>2 DEF ConfigNext, Serve, Down

LEMMA InitVInv ==
    ASSUME CInv, ConfigInit
    PROVE  VInv
<1>1. stage = "directives" /\ at = 1 /\ registered = [n \in {} |-> 0] /\ PlanOK
  BY DEF ConfigInit, CInv, PlanOK
<1>2. PICK reg, nx, vs, w : reg = registered /\ nx = next /\ vs = Base.vendors /\ w = Where
  OBVIOUS
<1>3. \A n : ~Defined(n, 0)
  BY DEF Defined
<1>4. Registry({}, reg, 0)
  <2>1. DOMAIN reg = {}
    BY <1>1, <1>2
  <2>2. QED BY <1>3, <2>1 DEF Registry
<1>5. Handling({}, "directives", 1, nx, vs, w)
  <2>1. \A q \in Due : q[1] \in Nat \ {0}
    BY <1>1, DueFacts
  <2>2. \A q \in Due : ~(q[1] < 1)
    BY <2>1
  <2>3. QED BY <2>2 DEF Handling
<1>6. FilesThere(0)
  BY DEF FilesThere
<1>7. {} \in SUBSET Due /\ at - 1 = 0
  BY <1>1
<1>8. QED BY <1>1, <1>2, <1>4, <1>5, <1>6, <1>7 DEF VInv

-----------------------------------------------------------------------------
(* When the sessions begin                                                 *)

LEMMA ServedFacts ==
    ASSUME CInv, LInv, VInv, stage = "serving", ~strayed
    PROVE  /\ PlanOK /\ AllRead /\ Len(plan) \in Nat
           /\ Registry(Due, registered, Len(plan)) /\ FilesThere(Len(plan))
<1>1. PlanOK /\ DictOK /\ Len(plan) \in Nat
  BY DEF CInv, PlanOK
<1>2. at = Len(plan) + 1 /\ at - 1 = Len(plan)
  BY <1>1 DEF CInv, VInv
<1>3. PICK a \in Nat : a = at
  BY <1>1, <1>2
<1>4. Passed(<<a, 1>>) = Places
  <2>1. \A q \in Places : q[1] \in Nat /\ q[1] < a
    BY <1>1, <1>2, <1>3, PlaceFacts
  <2>2. QED BY <2>1 DEF Passed, Precedes
<1>5. Base = dict /\ Where = <<at, 1>>
  BY <1>1, NullAssumption DEF Base, Where, Loading, DictOK
<1>6. DictIs(dict, Places)
  BY <1>3, <1>4, <1>5 DEF LInv
<1>7. PICK H \in SUBSET Due : /\ Handling(H, stage, at, next, Base.vendors, Where)
                              /\ Registry(H, registered, at - 1)
                              /\ FilesThere(at - 1)
  BY DEF VInv
<1>8. H = Due
  <2>1. PICK st, nx, vs, w : st = stage /\ nx = next /\ vs = Base.vendors /\ w = Where
    OBVIOUS
  <2>2. Handling(H, st, a, nx, vs, w)
    BY <1>3, <1>7, <2>1
  <2>3. \A q \in Due : q[1] < a => q \in H
    BY <2>2 DEF Handling
  <2>4. \A q \in Due : q[1] < a
    BY <1>1, <1>2, <1>3, DueFacts
  <2>5. QED BY <2>3, <2>4
<1>9. QED BY <1>1, <1>2, <1>6, <1>7, <1>8 DEF AllRead

LEMMA ServedDecoded ==
    CInv /\ LInv /\ VInv => DecodedRight
<1> SUFFICES ASSUME CInv, LInv, VInv, stage = "serving", ~strayed,
                    NEW id \in Mentioned \cup {0}, NEW code \in {Number[t] : t \in DOMAIN Number}
             PROVE  LET built == {i \in DOMAIN Builtin : id = 0 /\ Builtin[i].code = code}
                        given == {q \in AttributesOf(id) : Atoi(Arg(q, 2)) = code}
                    IN  TypeIn(id, code) =
                          IF built # {} THEN Builtin[CHOOSE i \in built : \A j \in built : i <= j].type
                          ELSE IF given # {} THEN TypeOf(Arg(Earliest(given), 3)) ELSE "octets"
  BY DEF DecodedRight
<1> DEFINE built == {i \in DOMAIN Builtin : id = 0 /\ Builtin[i].code = code}
           given == {q \in AttributesOf(id) : Atoi(Arg(q, 2)) = code}
<1>1. PlanOK /\ AllRead
  BY ServedFacts
<1>2. given = Giving(AttributesOf(id), code)
  BY DEF Giving
<1>3. (CHOOSE i \in built : \A j \in built : i <= j) = Lowest(built)
  BY DEF Lowest
<1>4. CASE id = 0
  <2>1. built = WithCode(Builtin, code)
    BY <1>4 DEF WithCode
  <2>2. TypeIn(0, code) =
          IF WithCode(Builtin, code) # {} THEN Builtin[Lowest(WithCode(Builtin, code))].type
          ELSE IF Giving(AttributesOf(0), code) # {}
               THEN TypeOf(Arg(Earliest(Giving(AttributesOf(0), code)), 3)) ELSE "octets"
    BY <1>1, DecodedStandard
  <2> HIDE DEF built, given
  <2>3. TypeIn(id, code) =
          IF built # {} THEN Builtin[Lowest(built)].type
          ELSE IF given # {} THEN TypeOf(Arg(Earliest(given), 3)) ELSE "octets"
    BY <1>2, <1>4, <2>1, <2>2
  <2>4. QED BY <1>3, <2>3 DEF built, given
<1>5. CASE id # 0
  <2>1. built = {} /\ id \in Mentioned
    BY <1>5
  <2>2. TypeIn(id, code) =
          IF Giving(AttributesOf(id), code) # {}
          THEN TypeOf(Arg(Earliest(Giving(AttributesOf(id), code)), 3)) ELSE "octets"
    BY <1>1, <1>5, <2>1, DecodedVendor
  <2> HIDE DEF built, given
  <2>3. TypeIn(id, code) =
          IF built # {} THEN Builtin[Lowest(built)].type
          ELSE IF given # {} THEN TypeOf(Arg(Earliest(given), 3)) ELSE "octets"
    BY <1>2, <2>1, <2>2
  <2>4. QED BY <1>3, <2>3 DEF built, given
<1>6. QED BY <1>4, <1>5

LEMMA ServedAccepted ==
    CInv /\ LInv /\ VInv => RefusedRight
<1> SUFFICES ASSUME CInv, LInv, VInv, stage = "serving", ~strayed, Unacceptable
             PROVE  FALSE
  BY DEF RefusedRight, VInv
<1>1. PICK f : f = Len(plan)
  OBVIOUS
<1>2. PlanOK /\ Registry(Due, registered, f) /\ FilesThere(f)
  BY <1>1, ServedFacts
<1>3. DOMAIN plan = 1..f
  BY <1>1, <1>2 DEF PlanOK
<1>4. ~\E g \in DOMAIN plan : plan[g].kind = "radius_dict" /\ plan[g].file = Null
  BY <1>2, <1>3 DEF FilesThere
<1>5. PICK q \in Due : /\ ~Defined(DueName(q), q[1])
                       /\ \/ Defined(DueName(q), f)
                          \/ \E r \in Due \ {q} : DueName(r) = DueName(q)
  BY <1>1, <1>4 DEF Unacceptable
<1>6. registered[DueName(q)] = [by |-> "radius", data |-> VsaData(Owner(q), Atoi(Arg(q, 2)))]
  BY <1>2, <1>5 DEF Registry
<1>7. registered[DueName(q)].by # "map"
  BY <1>6
<1>8. ~Defined(DueName(q), f)
  BY <1>2, <1>7 DEF Registry
<1>9. \A r \in Due \ {q} : DueName(r) # DueName(q)
  BY <1>2, <1>5 DEF Registry
<1>10. QED BY <1>5, <1>8, <1>9

LEMMA ServedVariables ==
    CInv /\ LInv /\ VInv => VsaRight
<1> SUFFICES ASSUME CInv, LInv, VInv, stage = "serving", ~strayed
             PROVE  /\ {n \in DOMAIN registered : registered[n].by = "radius"}
                       = {DueName(q) : q \in {r \in Due : ~Defined(DueName(r), r[1])}}
                    /\ \A q \in Due :
                         LET n == DueName(q)  id == Owner(q)  code == Atoi(Arg(q, 2))
                         IN  registered[n].by = "radius" /\ id < VendorIds /\ code < 256 =>
                               ReadVSA(n) = IF request.error THEN {} ELSE OfVendor(request.attrs, id, code)
  BY DEF VsaRight
<1>1. PICK f \in Nat : f = Len(plan)
  BY ServedFacts
<1>2. PlanOK /\ Registry(Due, registered, f)
  BY <1>1, ServedFacts
<1>3. \A d : [by |-> "radius", data |-> d].by = "radius" /\ [by |-> "radius", data |-> d].data = d
  OBVIOUS
<1>4. ASSUME NEW q \in Due, ~Defined(DueName(q), q[1])
      PROVE  /\ DueName(q) \in DOMAIN registered /\ registered[DueName(q)].by = "radius"
             /\ registered[DueName(q)].data = VsaData(Owner(q), Atoi(Arg(q, 2)))
  <2>1. /\ DueName(q) \in DOMAIN registered
        /\ registered[DueName(q)] = [by |-> "radius", data |-> VsaData(Owner(q), Atoi(Arg(q, 2)))]
    BY <1>2, <1>4 DEF Registry
  <2>2. QED BY <1>3, <2>1, Zenon
<1>5. {n \in DOMAIN registered : registered[n].by = "radius"}
      = {DueName(q) : q \in {r \in Due : ~Defined(DueName(r), r[1])}}
  <2>1. ASSUME NEW n \in DOMAIN registered, registered[n].by = "radius"
        PROVE  \E q \in Due : DueName(q) = n /\ ~Defined(DueName(q), q[1])
    BY <1>2, <2>1 DEF Registry
  <2>2. QED BY <1>4, <2>1
<1>6. ASSUME NEW q \in Due, registered[DueName(q)].by = "radius",
             Owner(q) < VendorIds, Atoi(Arg(q, 2)) < 256
      PROVE  ReadVSA(DueName(q)) =
               IF request.error THEN {} ELSE OfVendor(request.attrs, Owner(q), Atoi(Arg(q, 2)))
  <2>1. PICK n, id, code : n = DueName(q) /\ id = Owner(q) /\ code = Atoi(Arg(q, 2))
    OBVIOUS
  <2>2. ~Defined(n, q[1])
    <3>1. ~Defined(n, f)
      BY <1>2, <1>6, <2>1 DEF Registry
    <3>2. q[1] \in Nat /\ q[1] <= f
      BY <1>1, <1>2, DueFacts
    <3>3. QED BY <3>1, <3>2, DefinedMore
  <2>3. registered[n].data = VsaData(id, code)
    BY <1>4, <2>1, <2>2
  <2>4. id \in Nat /\ code \in Nat
    <3>1. q \in Places /\ Says(q, "ATTRIBUTE", 3) /\ Owner(q) # 0
      BY <1>2, DueFacts
    <3>2. Mentions(Origin(id), id)
      BY <1>2, <2>1, <3>1, OwnerMentioned
    <3>3. id \in Nat
      BY <3>2, AtoiNat, TextAssumption DEF Mentions, OwnId
    <3>4. QED BY <2>1, <3>3, AtoiNat
  <2>5. VsaVendor(VsaData(id, code)) = id /\ VsaType(VsaData(id, code)) = code
    BY <1>6, <2>1, <2>4, VsaPacking
  <2>6. ReadVSA(n) = IF request.error THEN {} ELSE OfVendor(request.attrs, id, code)
    BY <2>3, <2>5, Zenon DEF ReadVSA
  <2>7. QED BY <2>1, <2>6
<1>7. QED BY <1>5, <1>6

\* The whole invariant.
WholeInv == CInv /\ LInv /\ VInv

LEMMA InitWhole == ConfigInit => WholeInv
<1> SUFFICES ASSUME ConfigInit PROVE WholeInv
  OBVIOUS
<1>1. CInv
  BY InitCInv
<1>2. LInv
  BY <1>1, InitLInv
<1>3. QED BY <1>1, <1>2, InitVInv DEF WholeInv

LEMMA StepWhole == WholeInv /\ [ConfigNext]_<<vars, configVars>> => WholeInv'
<1> SUFFICES ASSUME CInv, LInv, VInv, [ConfigNext]_<<vars, configVars>>
             PROVE  CInv' /\ LInv' /\ VInv'
  BY DEF WholeInv
<1>1. CInv'
  BY StepCInv
<1>2. LInv'
  BY StepLInv
<1>3. QED BY <1>1, <1>2, StepVInv

LEMMA WholeAlways == ConfigSpec => []WholeInv
  BY InitWhole, StepWhole, PTL DEF ConfigSpec

\* A session decodes an attribute as the files say: by the built-in definition of its type,
\* or else by the first that a file gives for its vendor, in a block, with the vendor's own
\* number, or with none (ngx_radius_dict_parse_line, ngx_radius_dict_lookup).
THEOREM ConfigDecodedRight == ConfigSpec => []DecodedRight
<1>1. WholeInv => DecodedRight
  BY ServedDecoded DEF WholeInv
<1>2. QED BY <1>1, WholeAlways, PTL

\* nginx refuses a configuration for a file that is missing or a variable that is wanted twice
\* and for nothing else, it refuses every such one, and it crashes only where the files name a
\* vendor by its number alone (ngx_stream_radius_dict_directive, ngx_radius_dict_vendor_by_name).
THEOREM ConfigRefusedRight == ConfigSpec => []RefusedRight
<1>1. WholeInv => RefusedRight
  BY ServedAccepted DEF WholeInv
<1>2. QED BY <1>1, WholeAlways, PTL

\* The variables of a dictionary are those of the attributes of the vendors that it brings in,
\* and each reads the attribute with its vendor's number and its type from the packet of the
\* session (ngx_stream_radius_dict_directive, ngx_stream_radius_var_vsa).
THEOREM ConfigVsaRight == ConfigSpec => []VsaRight
<1>1. WholeInv => VsaRight
  BY ServedVariables DEF WholeInv
<1>2. QED BY <1>1, WholeAlways, PTL

=============================================================================
