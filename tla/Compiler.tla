------------------------------ MODULE Compiler ------------------------------
(***************************************************************************)
(* `marrowc compile`, run again and again over a program its author edits. *)
(* Each compile writes the migrations and src/extensions.ts, whose         *)
(* extension point bodies belong to the author: a compile copies them from *)
(* the file it is about to overwrite.  Parse errors, type errors and       *)
(* verifier errors are printed; only an exception of the lowering and a    *)
(* stable extension point without a body make the command fail.            *)
(*                                                                         *)
(* A body is "stub" (as generated), "code", "guarded" (code that still     *)
(* holds the text of the stub's throw statement) or "unmarked" (code       *)
(* whose end sentinel is gone).                                            *)
(***************************************************************************)
EXTENDS CompilerStages

CONSTANTS
    Programs,    \* entry files an author starts from
    MaxBroken    \* bound: declarations with a syntax error at a time

Bodies == {"stub", "code", "guarded", "unmarked"}
ASSUME CompilerAssumption == Programs \subseteq Seq(Declarations) /\ MaxBroken \in Nat

VARIABLES
    main,        \* the declarations of the entry file
    sections,    \* of output/src/extensions.ts, none while there is no file
    migrations,  \* the schema files of output/migrations
    stage,       \* of the compile that runs, or "idle"
    ast,         \* the merged declarations
    complaints,  \* what the type checker reported
    ir,
    exit         \* exit status of the last compile, "none" after an edit

compileVars == <<main, sections, migrations, stage, ast, complaints, ir, exit>>

NoIR == Lower(<<>>)

CompileTypeOK ==
    /\ main \in Seq(Declarations) /\ ast \in Seq(Declarations)
    /\ sections \in Seq([name : STRING, body : Bodies])
    /\ migrations \in Seq([name : STRING, owner : STRING, fks : SUBSET STRING])
    /\ stage \in {"idle", "check", "lower", "optimize", "emit"}
    /\ complaints \subseteq DOMAIN ast
    /\ exit \in {"none", "ok", "failed"}

CompileInit ==
    /\ main \in Programs
    /\ sections = <<>> /\ migrations = <<>>
    /\ stage = "idle" /\ ast = <<>> /\ complaints = {} /\ ir = NoIR /\ exit = "none"
-----------------------------------------------------------------------------
(* The author edits the entry file, or the sections of the extensions.     *)
Edited ==
    /\ stage = "idle" /\ exit' = "none"
    /\ ast' = <<>> /\ complaints' = {} /\ ir' = NoIR
    /\ UNCHANGED <<migrations, stage>>

Break(i, s) ==
    /\ main[i].syntax = "ok"
    /\ Cardinality({j \in DOMAIN main : main[j].syntax # "ok"}) < MaxBroken
    /\ main' = [main EXCEPT ![i].syntax = s]
    /\ Edited /\ UNCHANGED sections

Repair(i) ==
    /\ main[i].syntax # "ok"
    /\ main' = [main EXCEPT ![i].syntax = "ok"]
    /\ Edited /\ UNCHANGED sections

Delete(i) ==
    /\ main' = RemoveAt(main, i)
    /\ Edited /\ UNCHANGED sections

Implement(i, b) ==
    /\ sections[i].body # b
    /\ sections' = [sections EXCEPT ![i].body = b]
    /\ Edited /\ UNCHANGED main
-----------------------------------------------------------------------------
Parse ==
    /\ stage = "idle"
    /\ ast' = Load(main) /\ stage' = "check"
    /\ complaints' = {} /\ ir' = NoIR /\ exit' = "none"
    /\ UNCHANGED <<main, sections, migrations>>

Check ==
    /\ stage = "check"
    /\ complaints' = Complaints(ast) /\ stage' = "lower"
    /\ UNCHANGED <<main, sections, migrations, ast, ir, exit>>

LowerProgram ==
    /\ stage = "lower"
    /\ ~\E i \in DOMAIN ast : Throws(ast[i])
    /\ ir' = Lower(ast) /\ stage' = "optimize"
    /\ UNCHANGED <<main, sections, migrations, ast, complaints, exit>>

LoweringThrows ==
    /\ stage = "lower"
    /\ \E i \in DOMAIN ast : Throws(ast[i])
    /\ stage' = "idle" /\ exit' = "failed"
    /\ UNCHANGED <<main, sections, migrations, ast, complaints, ir>>

OptimizeIR ==
    /\ stage = "optimize"
    /\ ir' = Optimize(ir) /\ stage' = "emit"
    /\ UNCHANGED <<main, sections, migrations, ast, complaints, exit>>

(* extractImplementations(): by name, so the last section of a name wins;  *)
(* without its end sentinel a section yields nothing.                      *)
Implementation(x) ==
    LET found == {i \in DOMAIN sections : sections[i].name = x /\ sections[i].body # "unmarked"}
    IN  IF found = {} THEN "stub" ELSE sections[Max(found)].body

IsStub(b) == b \in {"stub", "guarded"}

(* validateExtensions()                                                    *)
Missing == {x \in Range(ir.exts) : x.flag /\ IsStub(Implementation(x.name))}

(* Mutant of MergedSections: the generated file as it is.                  *)
FreshSections == [i \in DOMAIN ir.exts |-> [name |-> ir.exts[i].name, body |-> "stub"]]

(* mergeImplementations(): into the first section of the name.             *)
MergedSections ==
    [i \in DOMAIN ir.exts |->
        LET x == ir.exts[i].name
            first == ~\E j \in 1 .. i - 1 : ir.exts[j].name = x
        IN  [name |-> x,
             body |-> IF first /\ ~IsStub(Implementation(x)) THEN Implementation(x) ELSE "stub"]]

(* The files are written, then the errors of the extension points counted. *)
(* Without an extension point no extensions.ts is generated, and the old   *)
(* one stays.                                                              *)
Emit ==
    /\ stage = "emit"
    /\ migrations' = Migrations(ir.mods)
    /\ sections' = IF ir.exts = <<>> THEN sections ELSE MergedSections
    /\ exit' = IF Missing = {} THEN "ok" ELSE "failed"
    /\ stage' = "idle"
    /\ UNCHANGED <<main, ast, complaints, ir>>

CompileNext ==
    \/ \E i \in DOMAIN main : Repair(i) \/ Delete(i) \/ \E s \in {"header", "body"} : Break(i, s)
    \/ \E i \in DOMAIN sections, b \in Bodies \ {"stub"} : Implement(i, b)
    \/ Parse \/ Check \/ LowerProgram \/ LoweringThrows \/ OptimizeIR \/ Emit

CompileSpec == CompileInit /\ [][CompileNext]_compileVars
-----------------------------------------------------------------------------
(* The program as its author wrote it, whatever the parser makes of it.    *)
Written ==
    LET loaded[f \in DOMAIN Files] == Merged(Files[f], loaded) IN Merged(main, loaded)

ParseErrors ==
    \/ \E d \in Range(main) \cup UNION {Range(Files[f]) : f \in DOMAIN Files} : Unreadable(d)
    \/ \E d \in Range(main) : d.kind = "import" /\ d.name \notin DOMAIN Files

Distinct(ds) == \A i, j \in DOMAIN ds : i # j => <<ds[i].kind, ds[i].name>> # <<ds[j].kind, ds[j].name>>

Implemented(x) == \E i \in DOMAIN sections : sections[i] = [name |-> x, body |-> "code"]

(* What the type checker accepts, lowering accepts, except a prompt        *)
(* without a template; every reference the checker looks up is there in    *)
(* the IR after the optimizer; a capability is a method of the service of  *)
(* every declared entity it takes; and if no name is declared twice the    *)
(* verifier finds nothing.                                                 *)
AcceptedCompiles ==
    exit # "none" /\ complaints = {} /\ (\A d \in Range(ast) : d.defect # "unreported") =>
        /\ exit = "failed" => Missing # {}
        /\ \A p \in ir.prompts \cup ir.routers : \A r \in p.refs :
                   r[2] \in (CASE r[1] = "model" -> ir.models
                             [] r[1] = "router" -> {x.name : x \in ir.routers}
                             [] r[1] = "capability" -> ir.tools
                             [] r[1] = "ext" -> {x.name : x \in Range(ir.exts)})
        /\ \A c \in AllOf(ast, "capability") :
               /\ \A r \in c.refs : r[2] \in ir.events
               /\ \A e \in c.params \cap Names(ast, "entity") :
                      \E m \in Range(ir.mods) : m.id = <<"entity", e>> /\ c.name \in m.methods
        /\ Distinct(ast) => Verify(ir.mods) = {}

(* Schema files are written in this order.                                *)
TableDecls == OfKind(Written, "store") \o OfKind(Written, "entity")

Orderly ==
    /\ ~ParseErrors /\ Distinct(Written)
    /\ \A i, j \in DOMAIN TableDecls :
           /\ i < j => ~Within(TableDecls[j].table, TableDecls[i].table)
           /\ TableDecls[j].table \in TableDecls[i].rels => j <= i
    /\ \A t \in Range(TableDecls) : t.rels \subseteq {e.table : e \in AllOf(Written, "entity")}

(* The migrations can be run in their order and hold a table for every     *)
(* entity, as the entity declares it, if nothing is lost to the parser, no *)
(* name is declared twice, no store has the model name of an entity, no    *)
(* name contains one that is declared later, and belongs_to points back to *)
(* an entity: the store that no entity uses is eliminated with its table.  *)
SchemaInstalls ==
    exit = "ok" /\ Orderly =>
        /\ \A i \in DOMAIN migrations :
               migrations[i].fks \subseteq {migrations[j].name : j \in 1 .. i}
        /\ \A e \in AllOf(Written, "entity") :
               [name |-> e.table, owner |-> e.name, fks |-> e.rels] \in Range(migrations)

(* A compile drops the author's code for an extension point only if the    *)
(* point is no longer written, was hidden by a parse error, or if the file *)
(* holds two sections of its name.                                         *)
ExtensionCodeIsKept ==
    [][stage = "emit" /\ ~ParseErrors =>
         \A x \in Names(Written, "ext") :
             Implemented(x) /\ Cardinality({i \in DOMAIN sections : sections[i].name = x}) = 1
                 => Implemented(x)']_compileVars
=============================================================================
