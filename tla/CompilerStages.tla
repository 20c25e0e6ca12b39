-------------------------- MODULE CompilerStages --------------------------
(***************************************************************************)
(* The stages of `marrowc compile` (target express) as functions of the    *)
(* program: loading with recovery from syntax errors, the type checker,    *)
(* lowering, the optimizer, the SQL emitter and the verifier.              *)
(*                                                                         *)
(* A declaration is a record:                                              *)
(*   kind    "import", "entity", "store", "channel", "event",              *)
(*           "capability", "flow", "policy", "model", "prompt", "router",  *)
(*           "ext" or "evaluation"                                         *)
(*   name    its name; of an import, the file                              *)
(*   table   of an entity or a store, the name of its model: lowerStore()  *)
(*           drops the suffix "Store"                                      *)
(*   syntax  "ok", or where the syntax error is: "header" before its first *)
(*           brace, "body" within its braces                               *)
(*   defect  a mistake within the declaration alone: "none", "reported" by *)
(*           the checker, "thrown" if lowering refuses it as well, and     *)
(*           "unreported" if only lowering does (a prompt without template)*)
(*   refs    what it names and the checker looks up, if it is there: pairs *)
(*           <<kind, name>>                                                *)
(*   rels    of an entity, the targets of its belongs_to relations         *)
(*   params  of a capability, the entities among its parameter types       *)
(*   flag    of an ext, `stable: true`; of a capability, `cognition:`      *)
(***************************************************************************)
EXTENDS Integers, Sequences, FiniteSets, SequencesExt, FiniteSetsExt

CONSTANTS
    Files,     \* the library files: [name -> sequence of declarations]
    LongerName, \* pairs <<a, b>>: the path of a's schema file contains the name b
    StoreNames  \* pairs <<s, e>>: the name of the store s contains that of the entity e

Kinds == {"import", "entity", "store", "channel", "event", "capability", "flow", "policy",
          "model", "prompt", "router", "ext", "evaluation"}

LookedUp(kind) ==
    CASE kind = "capability" -> {"event"}
      [] kind = "policy" -> {"capability"}
      [] kind = "prompt" -> {"model", "router", "ext", "capability"}
      [] kind = "router" -> {"model"}
      [] OTHER -> {}

Declarations ==
    {d \in [kind : Kinds, name : STRING, table : STRING, syntax : {"ok", "header", "body"},
            defect : {"none", "reported", "thrown", "unreported"},
            refs : SUBSET (Kinds \X STRING), rels : SUBSET STRING, params : SUBSET STRING,
            flag : BOOLEAN] : \A r \in d.refs : r[1] \in LookedUp(d.kind)}

Imports(d) == d.kind = "import" /\ d.name \in DOMAIN Files

(* The library files do not import each other in a circle.                 *)
ASSUME FilesAssumption ==
    /\ IsFiniteSet(DOMAIN Files) /\ \A f \in DOMAIN Files : Files[f] \in Seq(Declarations)
    /\ \E depth \in [DOMAIN Files -> 0 .. Cardinality(DOMAIN Files)] :
           \A f \in DOMAIN Files : \A d \in Range(Files[f]) :
               Imports(d) => depth[d.name] < depth[f]

Within(b, a) == a = b \/ <<a, b>> \in LongerName

(* What s has at the places I, in their order.                             *)
Nth(I, k) == CHOOSE i \in I : Cardinality({j \in I : j <= i}) = k
Only(s, I) == [k \in 1 .. Cardinality(I) |-> s[Nth(I, k)]]

AllOf(ds, kind) == {d \in Range(ds) : d.kind = kind}
OfKind(ds, kind) == Only(ds, {i \in DOMAIN ds : ds[i].kind = kind})
Names(ds, kind) == {d.name : d \in AllOf(ds, kind)}
-----------------------------------------------------------------------------
(* RecoveringParser.  It has no case for evaluations.  A syntax error      *)
(* before the first brace costs the declaration.  After one within the     *)
(* braces, synchronizeInBody() takes the next closing brace for the end of *)
(* the system: the rest of the file is lost as well (unless a declaration  *)
(* keyword comes before that brace).                                       *)
Unreadable(d) == d.syntax # "ok" \/ d.kind = "evaluation"

Recovered(ds) ==
    Only(ds, {i \in DOMAIN ds : ~Unreadable(ds[i]) /\ \A j \in 1 .. i - 1 : ds[j].syntax # "body"})

(* ModuleLoader.  A system keeps its declarations and then gets those of   *)
(* the files it imports, in that order; a file that does not exist, or     *)
(* that is being loaded (the entry file is not in Files), adds nothing.    *)
Merged(ds, loaded) ==
    LET upto[n \in 0 .. Len(ds)] ==
            IF n = 0 THEN Only(ds, {i \in DOMAIN ds : ds[i].kind # "import"})
            ELSE IF Imports(ds[n]) THEN upto[n - 1] \o loaded[ds[n].name]
            ELSE upto[n - 1]
    IN  upto[Len(ds)]

Loaded[f \in DOMAIN Files] == Merged(Recovered(Files[f]), Loaded)

Load(main) == Merged(Recovered(main), Loaded)

-----------------------------------------------------------------------------
(* TypeChecker: first the symbols, then one check per kind.  Entity types  *)
(* always resolve, relations and duplicate names are not looked at.        *)
Symbols(ds) == {<<d.kind, d.name>> : d \in Range(ds)}

Undeclared(d, symbols) == d.refs \ symbols

Malformed(d) == d.defect \in {"reported", "thrown"}

CheckEntity(d, symbols) == Malformed(d)
CheckCapability(d, symbols) == Malformed(d) \/ Undeclared(d, symbols) # {}
CheckFlow(d, symbols) == Malformed(d)
CheckPolicy(d, symbols) == Malformed(d) \/ Undeclared(d, symbols) # {}
CheckModel(d, symbols) == Malformed(d)

(* Of capabilities of one name the symbol table holds the last.            *)
CapabilityNamed(ds, name) ==
    ds[Max({i \in DOMAIN ds : ds[i].kind = "capability" /\ ds[i].name = name})]

CheckPrompt(d, ds, symbols) ==
    \/ Malformed(d)
    \/ Undeclared(d, symbols) # {}
    \/ \E name \in Names(ds, "capability") :
           <<"capability", name>> \in d.refs /\ ~CapabilityNamed(ds, name).flag

(* Mutant of CheckRouter: the models of tiers and fallback not looked up.  *)
CheckRouterShape(d, symbols) == Malformed(d)

CheckRouter(d, symbols) == Malformed(d) \/ Undeclared(d, symbols) # {}

Complaints(ds) ==
    LET symbols == Symbols(ds)
        Bad(d) == \/ d.kind = "entity" /\ CheckEntity(d, symbols)
                  \/ d.kind = "capability" /\ CheckCapability(d, symbols)
                  \/ d.kind = "flow" /\ CheckFlow(d, symbols)
                  \/ d.kind = "policy" /\ CheckPolicy(d, symbols)
                  \/ d.kind = "model" /\ CheckModel(d, symbols)
                  \/ d.kind = "prompt" /\ CheckPrompt(d, ds, symbols)
                  \/ d.kind = "router" /\ CheckRouter(d, symbols)
    IN  {i \in DOMAIN ds : Bad(ds[i])}
-----------------------------------------------------------------------------
(* Lowering.  An id is a hash of the system, the kind and the name.        *)
NoModel == <<>>

StoreModule(d) ==
    [id |-> <<"store", d.name>>, kind |-> "data_store",
     model |-> [name |-> d.table, owner |-> d.name, fks |-> {}], deps |-> {}, methods |-> {}]

EntityModule(d, ds) ==
    LET own == {i \in DOMAIN ds :
                    /\ ds[i].kind = "store"
                    /\ ds[i].name = d.name \/ <<ds[i].name, d.name>> \in StoreNames}
    IN  [id |-> <<"entity", d.name>>, kind |-> "api_service",
         model |-> [name |-> d.table, owner |-> d.name, fks |-> d.rels],
         deps |-> IF own = {} THEN {} ELSE {<<"store", ds[Min(own)].name>>},
         methods |-> {c.name : c \in {c \in AllOf(ds, "capability") : d.name \in c.params}}]

ChannelModule(d) ==
    [id |-> <<"channel", d.name>>, kind |-> "realtime_service", model |-> NoModel,
     deps |-> {}, methods |-> {}]

Gateway(mods) ==
    [id |-> <<"gateway", "APIGateway">>, kind |-> "gateway", model |-> NoModel,
     deps |-> {m.id : m \in {m \in Range(mods) : m.kind # "data_store"}}, methods |-> {}]

Modules(ds) ==
    LET stores == OfKind(ds, "store")
        entities == OfKind(ds, "entity")
        channels == OfKind(ds, "channel")
        mods == [i \in DOMAIN stores |-> StoreModule(stores[i])]
                \o [i \in DOMAIN entities |-> EntityModule(entities[i], ds)]
                \o [i \in DOMAIN channels |-> ChannelModule(channels[i])]
    IN  Append(mods, Gateway(mods))

(* collectToolCapabilities()                                               *)
Tools(ds) ==
    {c.name : c \in {c \in AllOf(ds, "capability") :
        c.flag /\ \E p \in AllOf(ds, "prompt") : <<"capability", c.name>> \in p.refs}}

(* lowerModel(), lowerPrompt() and lowerRouter() throw.                    *)
Throws(d) == d.kind \in {"model", "prompt", "router"} /\ d.defect \in {"thrown", "unreported"}

Lower(ds) ==
    [mods |-> Modules(ds),
     models |-> Names(ds, "model"), prompts |-> AllOf(ds, "prompt"),
     routers |-> AllOf(ds, "router"), events |-> Names(ds, "event"),
     flows |-> Names(ds, "flow"), tools |-> Tools(ds), exts |-> OfKind(ds, "ext")]
-----------------------------------------------------------------------------
(* The optimizer.  storeMerging() only merges stores without a model, and  *)
(* lowering gives each of them one.                                        *)
DeadModuleElimination(mods) ==
    LET seeds == {m.id : m \in {m \in Range(mods) : m.kind # "data_store"}}
        others == {m.id : m \in Range(mods)} \ seeds
        closed == {S \in SUBSET others :
                      \A m \in Range(mods) : m.id \in seeds \cup S => m.deps \cap others \subseteq S}
    IN  Only(mods, {i \in DOMAIN mods : mods[i].id \in seeds \/ \A S \in closed : mods[i].id \in S})

DependencyMinimization(mods) ==
    LET Deps(d) == UNION {m.deps : m \in {m \in Range(mods) : m.id = d}}
        Minimized(m) ==
            {d \in m.deps \ {m.id} : ~\E e \in m.deps \ {m.id} : d \in Deps(e) \ {m.id}}
    IN  [i \in DOMAIN mods |-> [mods[i] EXCEPT !.deps = Minimized(mods[i])]]

Optimize(ir) == [ir EXCEPT !.mods = DependencyMinimization(DeadModuleElimination(@))]
-----------------------------------------------------------------------------
(* Emitter.emit() writes one schema file per model.  FullEmitter takes, of *)
(* each model, the first of them whose path includes the model's name, and *)
(* no path twice.                                                          *)
SchemaFiles(mods) ==
    Only([i \in DOMAIN mods |-> mods[i].model], {i \in DOMAIN mods : mods[i].model # NoModel})

(* Mutant of SchemaFileOf: the last file whose path includes the name.     *)
LastSchemaFileOf(model, files) ==
    files[Max({i \in DOMAIN files : Within(model.name, files[i].name)})]

SchemaFileOf(model, files) ==
    files[Min({i \in DOMAIN files : Within(model.name, files[i].name)})]

Migrations(mods) ==
    LET files == SchemaFiles(mods)
        found == [i \in DOMAIN files |-> SchemaFileOf(files[i], files)]
    IN  Only(found, {i \in DOMAIN found : ~\E j \in 1 .. i - 1 : found[j].name = found[i].name})
-----------------------------------------------------------------------------
(* The verifier: V001, V004 and V009; what it finds stops nothing.         *)
DanglingDependencies(mods) ==
    \E m \in Range(mods) : ~(m.deps \subseteq {o.id : o \in Range(mods)})

DuplicateIds(mods) == \E i, j \in DOMAIN mods : i < j /\ mods[i].id = mods[j].id

(* A cycle: modules that each depend on one of them.                       *)
CircularDependencies(mods) ==
    \E M \in SUBSET Range(mods) :
        M # {} /\ \A m \in M : \E o \in M : o.id \in m.deps

Verify(mods) ==
    {c \in {"V001", "V004", "V009"} :
        \/ c = "V001" /\ DanglingDependencies(mods)
        \/ c = "V004" /\ CircularDependencies(mods)
        \/ c = "V009" /\ DuplicateIds(mods)}
=============================================================================
