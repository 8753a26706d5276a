---------------------------- MODULE RadiusConfig ----------------------------
(***************************************************************************)
(* ngx_stream_radius_module: the configuration, composed with a session.   *)
(* The files that radius_dict names are loaded line by line, a variable is *)
(* added for each attribute of a vendor they bring in, and when all        *)
(* directives are read the sessions begin, which decode by the dictionary  *)
(* and are read through those variables.                                   *)
(*                                                                         *)
(* A token is a sequence of pieces: words, "-" and "_".  A name that is    *)
(* written with capitals differs from the one without in its pieces.       *)
(***************************************************************************)
EXTENDS RadiusSession, SequencesExt

CONSTANTS
    Case,       \* pairs of a configuration and a session
    Builtin,    \* ngx_radius_builtin_attrs
    Small,      \* ngx_tolower, of the pieces that have capitals
    Number,     \* atoi, of the tokens that begin with a digit
    VarSize,    \* how many pieces the name of a variable may have
    VendorIds,  \* how many vendor ids there are
    Null

Token == Seq(STRING)

Type == {"string", "integer", "ipaddr", "date", "octets", "ipv6addr", "ipv6prefix", "ifid",
         "integer64", "ether"}

Def        == [code : Nat, type : Type, name : Token]
Vendors    == Seq([id : Nat, name : Token \cup {Null}, attrs : Seq(Def)])
Dictionary == [attrs : Seq(Def), vendors : Vendors]

Directives == [kind : {"radius_dict"}, file : Seq([key : STRING, args : Seq(Token)]) \cup {Null}]
              \cup [kind : {"define"}, name : Token]

ASSUME CaseAssumption == \A c \in Case : c[1] \in Seq(Directives)

ASSUME TextAssumption ==
    /\ \A piece \in DOMAIN Small : Small[piece] \in STRING
    /\ \A token \in DOMAIN Number : Number[token] \in Nat
    /\ Builtin \in Seq(Def)
    /\ VendorIds \in Nat \ {0}

ASSUME NullAssumption == Null \notin Dictionary

VARIABLES
    plan,       \* the directives
    stage,      \* what is being done with them
    at,         \* the directive that is read
    line,       \* the line of its file
    current,    \* current_vendor_id
    next,       \* the vendor and the attribute of it that get a variable next
    dict,       \* mcf->dict
    registered, \* the variables of nginx: who defined each, and var->data
    strayed     \* a vendor was not found under its name

configVars == <<plan, stage, at, line, current, next, dict, registered, strayed>>

-----------------------------------------------------------------------------
(* The dictionary                                                          *)

Lowered(token) == [i \in DOMAIN token |->
                     IF token[i] \in DOMAIN Small THEN Small[token[i]] ELSE token[i]]

Atoi(token) == IF token \in DOMAIN Number THEN Number[token] ELSE 0

TypeOf(token) ==
    LET kw == Lowered(token)
    IN  CASE kw = <<"string">> -> "string"
          [] kw \in {<<"integer">>, <<"byte">>, <<"short">>, <<"signed">>} -> "integer"
          [] kw \in {<<"ipaddr">>, <<"date">>, <<"ipv6addr">>, <<"ipv6prefix">>, <<"ifid">>,
                     <<"integer64">>, <<"ether">>} -> kw[1]
          [] OTHER -> "octets"

Known(id) == \E i \in DOMAIN dict.vendors : dict.vendors[i].id = id

NewVendor(id, name) == [id |-> id, name |-> name, attrs |-> <<>>]

\* Mutant of WithVendor: a vendor is created again.
WithVendorAgain(id, name) == Append(dict.vendors, NewVendor(id, name))

\* get_or_create_vendor
WithVendor(id, name) ==
    IF Known(id) THEN dict.vendors ELSE Append(dict.vendors, NewVendor(id, name))

Place(vendors, id) == CHOOSE i \in DOMAIN vendors : vendors[i].id = id

\* Mutant of TypeIn: a vendor's attribute is looked up among the standard ones.
TypeInStandard(vendor, code) ==
    LET hit == {i \in DOMAIN dict.attrs : dict.attrs[i].code = code}
    IN  IF hit = {} THEN "octets" ELSE dict.attrs[CHOOSE i \in hit : \A j \in hit : i <= j].type

\* How the value of an attribute is decoded: by its first definition.
TypeIn(vendor, code) ==
    LET defs == IF vendor = 0 THEN dict.attrs
                ELSE IF Known(vendor) THEN dict.vendors[Place(dict.vendors, vendor)].attrs
                ELSE <<>>
        hit == {i \in DOMAIN defs : defs[i].code = code}
    IN  IF hit = {} THEN "octets" ELSE defs[CHOOSE i \in hit : \A j \in hit : i <= j].type

-----------------------------------------------------------------------------
(* The directives                                                          *)

Directive == plan[at]
Reading   == stage = "directives" /\ at <= Len(plan)

Refuse ==
    /\ stage' = "refused"
    /\ UNCHANGED <<plan, at, line, current, next, dict, registered>>

\* ngx_stream_add_variable
Added(name, by, d) ==
    [n \in DOMAIN registered \cup {name} |->
       IF n = name THEN [by |-> by, data |-> d] ELSE registered[n]]

\* map, set and the like: a variable that others may define as well.
Define ==
    /\ Reading
    /\ Directive.kind = "define"
    /\ Directive.name \notin DOMAIN registered
    /\ registered' = Added(Directive.name, "map", 0)
    /\ at' = at + 1
    /\ UNCHANGED <<plan, stage, line, current, next, dict, strayed>>

\* ngx_stream_add_variable refuses a name that is taken for good.
DefineAgain ==
    /\ Reading
    /\ Directive.kind = "define"
    /\ Directive.name \in DOMAIN registered
    /\ IF registered[Directive.name].by = "map"
       THEN at' = at + 1 /\ UNCHANGED <<plan, stage, line, current, next, dict, registered>>
       ELSE Refuse
    /\ UNCHANGED strayed

Base == IF dict = Null THEN [attrs |-> Builtin, vendors |-> <<>>] ELSE dict

\* Mutant of StartDict: all vendors get their variables again.
StartDictAgain ==
    /\ Reading
    /\ Directive.kind = "radius_dict"
    /\ Directive.file # Null
    /\ dict' = Base
    /\ next' = <<1, 1>>
    /\ stage' = "loading"
    /\ line' = 1
    /\ current' = 0
    /\ UNCHANGED <<plan, at, registered, strayed>>

StartDict ==
    /\ Reading
    /\ Directive.kind = "radius_dict"
    /\ Directive.file # Null
    /\ dict' = Base
    /\ next' = <<Len(Base.vendors) + 1, 1>>
    /\ stage' = "loading"
    /\ line' = 1
    /\ current' = 0
    /\ UNCHANGED <<plan, at, registered, strayed>>

NoFile ==
    /\ Reading
    /\ Directive.kind = "radius_dict"
    /\ Directive.file = Null
    /\ Refuse
    /\ UNCHANGED strayed

-----------------------------------------------------------------------------
(* ngx_radius_dict_parse_line                                              *)

Line == Directive.file[line]
Args == Line.args

Load(key, atleast) ==
    /\ stage = "loading"
    /\ line <= Len(Directive.file)
    /\ Line.key = key
    /\ Len(Args) >= atleast
    /\ line' = line + 1
    /\ UNCHANGED <<plan, stage, at, next, registered>>

DeclareVendor ==
    /\ Load("VENDOR", 2)
    /\ dict' = [dict EXCEPT !.vendors = WithVendor(Atoi(Args[2]), Args[1])]
    /\ UNCHANGED <<current, strayed>>

BeginById ==
    /\ Load("BEGIN-VENDOR", 1)
    /\ Args[1] \in DOMAIN Number
    /\ current' = Number[Args[1]]
    /\ UNCHANGED <<dict, strayed>>

Nameless == {i \in DOMAIN dict.vendors : dict.vendors[i].name = Null}

FirstId(S) == IF S = {} THEN 0 ELSE dict.vendors[CHOOSE i \in S : \A j \in S : i <= j].id

\* A vendor's name has no zero behind it, and ngx_strcasecmp reads on: whether it takes
\* the name for the token is open wherever the token begins with the name.
Scanned(token) ==
    SUBSET {i \in DOMAIN dict.vendors \ Nameless :
              IsPrefix(Lowered(dict.vendors[i].name), Lowered(token))}

Meant(token) ==
    {i \in DOMAIN dict.vendors \ Nameless : Lowered(dict.vendors[i].name) = Lowered(token)}

\* The scan comes to a vendor that has no name at all.
Falls(found) == \E i \in Nameless : \A j \in found : i < j

BeginByName ==
    /\ Load("BEGIN-VENDOR", 1)
    /\ Args[1] \notin DOMAIN Number
    /\ \E found \in Scanned(Args[1]) :
         /\ ~Falls(found)
         /\ current' = FirstId(found)
         /\ strayed' = (strayed \/ FirstId(found) # FirstId(Meant(Args[1])))
    /\ UNCHANGED dict

BeginFalls ==
    /\ stage = "loading"
    /\ line <= Len(Directive.file)
    /\ Line.key = "BEGIN-VENDOR"
    /\ Len(Args) >= 1
    /\ Args[1] \notin DOMAIN Number
    /\ \E found \in Scanned(Args[1]) : Falls(found)
    /\ stage' = "crashed"
    /\ UNCHANGED <<plan, at, line, current, next, dict, registered, strayed>>

\* Mutant of EndVendor: the vendor stays.
EndVendorLate ==
    /\ Load("END-VENDOR", 0)
    /\ UNCHANGED <<current, dict, strayed>>

EndVendor ==
    /\ Load("END-VENDOR", 0)
    /\ current' = 0
    /\ UNCHANGED <<dict, strayed>>

\* The vendor of an ATTRIBUTE line: its own, or that of the block around it.
AttributeVendor ==
    IF Len(Args) >= 4 /\ Args[4] \in DOMAIN Number THEN Number[Args[4]] ELSE current

Attribute ==
    /\ Load("ATTRIBUTE", 3)
    /\ LET id  == AttributeVendor
           def == [code |-> Atoi(Args[2]), type |-> TypeOf(Args[3]), name |-> Args[1]]
           all == WithVendor(id, Null)
       IN  dict' = IF id = 0 THEN [dict EXCEPT !.attrs = Append(@, def)]
                   ELSE [dict EXCEPT !.vendors =
                           [all EXCEPT ![Place(all, id)].attrs = Append(@, def)]]
    /\ UNCHANGED <<current, strayed>>

\* How many tokens a line needs behind its key.
Needs == [key \in {"VENDOR", "BEGIN-VENDOR", "END-VENDOR", "ATTRIBUTE"} |->
            CASE key = "VENDOR" -> 2 [] key = "BEGIN-VENDOR" -> 1
              [] key = "END-VENDOR" -> 0 [] key = "ATTRIBUTE" -> 3]

\* VALUE, $INCLUDE, blank lines, and lines with too few tokens.
Ignored ==
    /\ Load(Line.key, 0)
    /\ Line.key \in DOMAIN Needs => Len(Args) < Needs[Line.key]
    /\ UNCHANGED <<current, dict, strayed>>

EndOfFile ==
    /\ stage = "loading"
    /\ line > Len(Directive.file)
    /\ stage' = "registering"
    /\ UNCHANGED <<plan, at, line, current, next, dict, registered, strayed>>

-----------------------------------------------------------------------------
(* ngx_stream_radius_dict_directive: a variable for each attribute of a    *)
(* vendor that was not there before.                                       *)

Underscored(token) == [i \in DOMAIN token |-> IF token[i] = "-" THEN "_" ELSE Lowered(token)[i]]

Shown(name) == IF name = Null THEN <<>> ELSE name

\* ngx_stream_radius_vsa_var_name
VarName(vendor, attribute) ==
    LET whole == <<"radius_vsa_">> \o Underscored(Shown(vendor)) \o <<"_">> \o Underscored(attribute)
    IN  SubSeq(whole, 1, Least(Len(whole), VarSize))

\* NGX_RADIUS_VSA_DATA, NGX_RADIUS_VSA_VENDOR, NGX_RADIUS_VSA_ATYPE
VsaData(vendor, code) == (vendor % VendorIds) * 256 + (code % 256)
VsaVendor(d) == (d \div 256) % VendorIds
VsaType(d)   == d % 256

VendorNext == dict.vendors[next[1]]
AttrNext   == VendorNext.attrs[next[2]]
NameNext   == VarName(VendorNext.name, AttrNext.name)

Registering ==
    /\ stage = "registering"
    /\ next[1] <= Len(dict.vendors)
    /\ next[2] <= Len(VendorNext.attrs)

Register ==
    /\ Registering
    /\ NameNext \notin DOMAIN registered
    /\ registered' = Added(NameNext, "radius", VsaData(VendorNext.id, AttrNext.code))
    /\ next' = <<next[1], next[2] + 1>>
    /\ UNCHANGED <<plan, stage, at, line, current, dict, strayed>>

\* A variable that has a handler keeps it, if it may be defined again at all.
RegisterAgain ==
    /\ Registering
    /\ NameNext \in DOMAIN registered
    /\ IF registered[NameNext].by = "map"
       THEN /\ next' = <<next[1], next[2] + 1>>
            /\ UNCHANGED <<plan, stage, at, line, current, dict, registered>>
       ELSE Refuse
    /\ UNCHANGED strayed

NextVendor ==
    /\ stage = "registering"
    /\ next[1] <= Len(dict.vendors)
    /\ next[2] > Len(VendorNext.attrs)
    /\ next' = <<next[1] + 1, 1>>
    /\ UNCHANGED <<plan, stage, at, line, current, dict, registered, strayed>>

EndDict ==
    /\ stage = "registering"
    /\ next[1] > Len(dict.vendors)
    /\ stage' = "directives"
    /\ at' = at + 1
    /\ UNCHANGED <<plan, line, current, next, dict, registered, strayed>>

\* ngx_stream_radius_init: without a radius_dict there are the built-in attributes.
Configured ==
    /\ stage = "directives"
    /\ at > Len(plan)
    /\ dict' = Base
    /\ stage' = "serving"
    /\ UNCHANGED <<plan, at, line, current, next, registered, strayed>>

-----------------------------------------------------------------------------

Configure ==
    \/ Define \/ DefineAgain \/ StartDict \/ NoFile
    \/ DeclareVendor \/ BeginById \/ BeginByName \/ BeginFalls \/ EndVendor \/ Attribute
    \/ Ignored \/ EndOfFile
    \/ Register \/ RegisterAgain \/ NextVendor \/ EndDict
    \/ Configured

Serve == stage = "serving" /\ Next /\ UNCHANGED configVars

\* nginx does not start.
Down == stage \in {"refused", "crashed"} /\ UNCHANGED <<vars, configVars>>

ConfigInit ==
    /\ \E c \in Case : plan = c[1] /\ scenario = c[2]
    /\ Init
    /\ stage = "directives"
    /\ at = 1
    /\ line = 1
    /\ current = 0
    /\ next = <<1, 1>>
    /\ dict = Null
    /\ registered = [n \in {} |-> 0]
    /\ strayed = FALSE

ConfigNext ==
    \/ Configure /\ UNCHANGED vars
    \/ Serve
    \/ Down

ConfigFairness ==
    /\ WF_<<vars, configVars>>(Serve /\ ParseStep)
    /\ WF_<<vars, configVars>>(Serve /\ EndRequest)
    /\ WF_<<vars, configVars>>(Serve /\ EndResponse)

ConfigSpec == ConfigInit /\ [][ConfigNext]_<<vars, configVars>> /\ ConfigFairness

-----------------------------------------------------------------------------
(* Variables of the configuration                                          *)

Pen(bytes) == FoldLeft(LAMBDA n, b : 256 * n + b, 0, bytes)

\* The attributes of a vendor id in a table, as the first of a type.
OfVendor(table, id, vtype) ==
    UNION {FirstVSA(table, v, vtype) : v \in {u \in {table[i].vendor : i \in DOMAIN table} : Pen(u) = id}}

\* ngx_stream_radius_var_vsa
ReadVSA(name) ==
    LET d == registered[name].data
    IN  IF request.error THEN {} ELSE OfVendor(request.attrs, VsaVendor(d), VsaType(d))

-----------------------------------------------------------------------------
(* What the files say, independently of how they are loaded                *)

Places == UNION {{f} \X DOMAIN plan[f].file :
                   f \in {g \in DOMAIN plan : plan[g].kind = "radius_dict" /\ plan[g].file # Null}}

Says(q, key, n) == LET l == plan[q[1]].file[q[2]] IN l.key = key /\ Len(l.args) >= n
Arg(q, i)       == plan[q[1]].file[q[2]].args[i]

Precedes(q, r) == q[1] < r[1] \/ (q[1] = r[1] /\ q[2] < r[2])
Earliest(S)  == CHOOSE q \in S : \A r \in S \ {q} : Precedes(q, r)
Latest(S)    == CHOOSE q \in S : \A r \in S \ {q} : Precedes(r, q)

\* The lines that open or close a block, in the same file and before q.
Blocks(q) == {r \in Places : /\ r[1] = q[1] /\ Precedes(r, q)
                             /\ Says(r, "BEGIN-VENDOR", 1) \/ Says(r, "END-VENDOR", 0)}

InBlock(q) == Blocks(q) # {} /\ Says(Latest(Blocks(q)), "BEGIN-VENDOR", 1)
Opener(q)  == Arg(Latest(Blocks(q)), 1)
OwnId(q)   == Says(q, "ATTRIBUTE", 4) /\ Arg(q, 4) \in DOMAIN Number

\* The line mentions a vendor by its number.
Mentions(q, id) ==
    \/ Says(q, "VENDOR", 2) /\ Atoi(Arg(q, 2)) = id
    \/ /\ Says(q, "ATTRIBUTE", 3) /\ id # 0
       /\ IF OwnId(q) THEN Number[Arg(q, 4)] = id
          ELSE InBlock(q) /\ Opener(q) \in DOMAIN Number /\ Number[Opener(q)] = id

Ids == {Atoi(Arg(q, 2)) : q \in {r \in Places : Says(r, "VENDOR", 2)}}
       \cup {Number[t] : t \in DOMAIN Number}

Mentioned == {id \in Ids : \E q \in Places : Mentions(q, id)}
Origin(id) == Earliest({q \in Places : Mentions(q, id)})
NameOf(id) == IF Says(Origin(id), "VENDOR", 2) THEN Arg(Origin(id), 1) ELSE Null

\* The vendor whose name opens a block, as far as it was mentioned before.
IdOf(token, q) ==
    LET ids == {id \in Mentioned : /\ Precedes(Origin(id), q) /\ NameOf(id) # Null
                                   /\ Lowered(NameOf(id)) = Lowered(token)}
    IN  IF ids = {} THEN 0
        ELSE CHOOSE id \in ids : \A o \in ids \ {id} : Precedes(Origin(id), Origin(o))

Owner(q) ==
    IF OwnId(q) THEN Number[Arg(q, 4)]
    ELSE IF ~InBlock(q) THEN 0
    ELSE IF Opener(q) \in DOMAIN Number THEN Number[Opener(q)]
    ELSE IdOf(Opener(q), Latest(Blocks(q)))

AttributesOf(id) == {q \in Places : Says(q, "ATTRIBUTE", 3) /\ Owner(q) = id}

\* The attributes of vendors that the same file is the first to mention.
Due == {q \in Places : /\ Says(q, "ATTRIBUTE", 3) /\ Owner(q) # 0
                       /\ Origin(Owner(q))[1] = q[1]}

DueName(q) == VarName(NameOf(Owner(q)), Arg(q, 1))

Defined(n, f) == \E g \in 1..f : plan[g].kind = "define" /\ plan[g].name = n

\* A file is missing, or a variable is wanted twice.
Unacceptable ==
    \/ \E f \in DOMAIN plan : plan[f].kind = "radius_dict" /\ plan[f].file = Null
    \/ \E q \in Due : /\ ~Defined(DueName(q), q[1])
                      /\ \/ Defined(DueName(q), Len(plan))
                         \/ \E r \in Due \ {q} : DueName(r) = DueName(q)

-----------------------------------------------------------------------------
(* Properties                                                              *)

\* Types of the dictionary (ngx_stream_radius_module.h:80-99): no two vendors share a number.
ConfigTypeOK ==
    /\ stage \in {"directives", "loading", "registering", "refused", "crashed", "serving"}
    /\ at \in 1..Len(plan) + 1
    /\ current \in Nat
    /\ strayed \in BOOLEAN
    /\ dict # Null =>
         /\ dict \in Dictionary
         /\ \A i, j \in DOMAIN dict.vendors : dict.vendors[i].id = dict.vendors[j].id => i = j
    /\ \A n \in DOMAIN registered : registered[n].data \in Nat

\* README.md:462-465: every attribute of a vendor has its variable, and through it a session
\* reads the first attribute of the packet with the vendor's number and the type that the
\* file gives; there are no others.  It holds for vendors that one file brings in.
VsaRight ==
    stage = "serving" /\ ~strayed =>
      /\ {n \in DOMAIN registered : registered[n].by = "radius"}
         = {DueName(q) : q \in {r \in Due : ~Defined(DueName(r), r[1])}}
      /\ \A q \in Due :
           LET n == DueName(q)  id == Owner(q)  code == Atoi(Arg(q, 2))
           IN  registered[n].by = "radius" /\ id < VendorIds /\ code < 256 =>
                 ReadVSA(n) = IF request.error THEN {} ELSE OfVendor(request.attrs, id, code)

\* An attribute is decoded as its first definition says: the built-in one, or else the first
\* that a file gives, in a block, with a vendor of its own, or with none.
DecodedRight ==
    stage = "serving" /\ ~strayed =>
      \A id \in Mentioned \cup {0} : \A code \in {Number[t] : t \in DOMAIN Number} :
        LET built == {i \in DOMAIN Builtin : id = 0 /\ Builtin[i].code = code}
            given == {q \in AttributesOf(id) : Atoi(Arg(q, 2)) = code}
        IN  TypeIn(id, code) =
              IF built # {} THEN Builtin[CHOOSE i \in built : \A j \in built : i <= j].type
              ELSE IF given # {} THEN TypeOf(Arg(Earliest(given), 3)) ELSE "octets"

\* A configuration is refused for a missing file or a variable wanted twice and for nothing
\* else, however many dictionaries there are; loading one crashes only over a vendor without
\* a name (ngx_stream_radius_dict.c:342-350).
RefusedRight ==
    ~strayed =>
      /\ stage = "refused" => Unacceptable
      /\ stage = "serving" => ~Unacceptable
      /\ stage = "crashed" => \E id \in Mentioned : NameOf(id) = Null

=============================================================================
