------------------------------ MODULE MCHistory ------------------------------
(* An instance of Store for TLC.  Opening: two threads of one process and  *)
(* one of another.  Then: a day of two hours of two ticks.                 *)
EXTENDS Store, TLC

CONSTANTS o1, o2, o3, p1, p2

MCProcess == o1 :> p1 @@ o2 :> p1 @@ o3 :> p2

Table(v, parts, rows) == [version |-> v, parts |-> parts, rows |-> rows]

\* No file; foreign tables; complete, already altered and damaged files of the
\* earlier version; complete and damaged ones of this; one of a later version.
MCFiles ==
  {Table(0, {}, {}), Table(0, {"query_logs"}, {}),
   Table(1, Required \ {"upstream"}, {"recorded"}), Table(1, Required, {"recorded"}),
   Table(1, Required \ {"upstream", "query_logs"}, {}),
   Table(2, Required, {"recorded"}), Table(2, Required \ {"cascade"}, {"recorded"}),
   Table(2, Required \ {"rowid_alias"}, {"recorded"}), Table(3, Required, {"recorded"})}

MCEvents == [at : {1}, blocked : {TRUE}, ips : {{}}]
            \cup [at : {7, 10}, blocked : {FALSE}, ips : {Addresses}]

\* The first row, the last page there can be, and what the handler turns away:
\* page 0, too large a page, and an offset past I64_MAX.
MCPages == {[page |-> 1, page_size |-> 1], [page |-> 8, page_size |-> 1],
            [page |-> 0, page_size |-> 1], [page |-> 1, page_size |-> 3],
            [page |-> 5, page_size |-> 2]}

Symmetry == Permutations(Requests)
=============================================================================
