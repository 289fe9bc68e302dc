--------------------------- MODULE MCBookkeeping ----------------------------
(* A small instance of Bookkeeping: addresses, threads and worker ids are
   interchangeable. *)
EXTENDS Bookkeeping, MCTaskList

BookkeepingSymmetry == AddressSymmetry \cup Permutations(WorkerId)

(* Two keys that share a file, one of them also with an unknown type; a blob
   without data; a key that is refused. *)
PlainEntries == {Entry(<<"a", "/", "b">>, "string", 0, "x"),
                 Entry(<<"a", "_", "b">>, "blob", 0, "x"),
                 Entry(<<"a", "_", "b">>, "bad", 0, "x"),
                 Entry(<<"c">>, NoData, 0, "x"),
                 Entry(<<>>, "int64", 0, "x")}
Experiments == {<<"e">>}

(* Two models of which a query must tell one from the other, the task that
   stands for any, and ids with the sign bit set (SignBit = 3). *)
Files == {<<1, 1>>, <<0, 2>>, <<3, 3>>}
=============================================================================
