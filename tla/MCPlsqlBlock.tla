---------------------------- MODULE MCPlsqlBlock ----------------------------
(* PlsqlBlock for TLC: every body of up to three statements that can run, and *)
(* some that are refused.                                                     *)
EXTENDS PlsqlBlock

Runnable == {"call", "open", "assign"}
UpTo(n, kinds) == UNION {[1 .. k -> kinds] : k \in 0 .. n}

Bodies == UpTo(3, Runnable) \cup {<<"raise">>, <<"call", "raise">>, <<"unsupported">>}
Handlers == {<<>>, <<"call">>, <<"assign">>, <<"call", "assign">>, <<"unsupported">>}

MCBlocks ==
    {b \in [body : Bodies, clause : Clauses, handler : Handlers] :
       b.clause # "others" => b.handler = <<>>}

=============================================================================
