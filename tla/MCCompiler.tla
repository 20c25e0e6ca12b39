----------------------------- MODULE MCCompiler -----------------------------
(***************************************************************************)
(* Up to three declarations out of a small shop: two entities, one of      *)
(* which has a name that contains the other's, a store, an event, two      *)
(* capabilities, a model, a prompt and a router, each with or without      *)
(* mistakes; and the same files with extension points and imports.         *)
(***************************************************************************)
EXTENDS Compiler, TLC

Decl(kind, name) ==
    [kind |-> kind, name |-> name, table |-> name, syntax |-> "ok", defect |-> "none",
     refs |-> {}, rels |-> {}, params |-> {}, flag |-> FALSE]

Order == Decl("entity", "Order")
Bulk == [Decl("entity", "BulkOrder") EXCEPT !.rels = {"Order"}]
OrderStore == [Decl("store", "BulkOrderStore") EXCEPT !.table = "BulkOrder"]
LogStore == [Decl("store", "LogStore") EXCEPT !.table = "Log"]
Feed == Decl("channel", "Feed")
Checkout == [Decl("flow", "Checkout") EXCEPT !.defect = "reported"]
Budget == [Decl("policy", "Budget") EXCEPT !.refs = {<<"capability", "find">>}]
Placed == Decl("event", "Placed")
Place == [Decl("capability", "place") EXCEPT !.params = {"Order", "BulkOrder"}, !.refs = {<<"event", "Placed">>}]
Find == [Decl("capability", "find") EXCEPT !.flag = TRUE]
Small == Decl("model", "Small")
Tiered == [Decl("router", "Tiered") EXCEPT !.refs = {<<"model", "Small">>}]
Ask == [Decl("prompt", "ask") EXCEPT !.refs = {<<"router", "Tiered">>, <<"capability", "find">>}]
Sum == [Decl("prompt", "sum") EXCEPT !.refs = {<<"model", "Small">>}, !.defect = "unreported"]
Bad == [Decl("model", "Bad") EXCEPT !.defect = "thrown"]
Fee == [Decl("ext", "fee") EXCEPT !.flag = TRUE]
Tax == Decl("ext", "tax")
Types == Decl("import", "types")
Rates == Decl("import", "rates")
Nothing == Decl("import", "nothing")

MCFiles == "types" :> <<Order, Placed>> @@ "rates" :> <<Decl("import", "types"), Fee, Decl("import", "main")>>

Shop == {Order, Bulk, OrderStore, LogStore, Placed, Place, Find, Small, Tiered, Ask, Bad, Feed, Checkout, Budget, Types}

MCPrograms ==
    {<<a, b, c>> : a, b, c \in Shop} \cup
    {<<Small, Tiered, Find, Ask>>, <<Small, Sum>>, <<LogStore, Order, Bulk, OrderStore>>,
     <<Order, Fee, Tax>>, <<Fee, Rates, Tax>>, <<Rates, Types>>, <<Fee, Fee>>, <<Fee, Nothing>>,
     <<Bulk, Rates>>, <<Tax, Small, Bad>>}

MCLongerName == {<<"BulkOrder", "Order">>}
MCStoreNames == {<<"BulkOrderStore", "Order">>, <<"BulkOrderStore", "BulkOrder">>}
=============================================================================
