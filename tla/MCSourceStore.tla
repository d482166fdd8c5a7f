--------------------------- MODULE MCSourceStore ---------------------------
(* Every archive of up to two entries over four names, archives at the limits *)
(* of their sizes and of their number of files, texts and a host directory;   *)
(* three threads, one of them from git, import one chunk at the same time.    *)
EXTENDS SourceStore

Entry(name, dir, declared, actual) ==
    [name |-> name, dir |-> dir, plain |-> TRUE, declared |-> declared, actual |-> actual]
Zip(chunks, entries, threads) ==
    [kind |-> "zip", chunks |-> chunks, entries |-> entries, threads |-> threads]

CaseFold == [n \in {"a", "A", "a/b", "../c"} |-> IF n = "A" THEN "a" ELSE n]
Directories == [n \in DOMAIN CaseFold |-> IF n = "a/b" THEN {"a"} ELSE {}]

AnyEntry == {Entry(n, d, 1, 1) : n \in Names, d \in BOOLEAN}
Link == [Entry("a", FALSE, 1, 1) EXCEPT !.plain = FALSE]

SmallSources ==
    {Zip(1, <<e, f>>, {1}) : e, f \in AnyEntry} \cup {Zip(1, <<e>>, {1}) : e \in AnyEntry}
    \cup {Zip(1, <<Entry("a/b", FALSE, d, t), Entry("A", TRUE, 0, 0)>>, {1}) : d, t \in 0..3}
    \cup {Zip(1, <<>>, {1}), Zip(1, <<Link>>, {1})}
    \cup {Zip(n, <<Entry("a", FALSE, 1, 1)>>, {1}) : n \in 2..3}
    \cup {Zip(1, <<Entry("a", FALSE, 1, 1)>>, {1, 2, 3})}
    \cup {[kind |-> k, chunks |-> n, entries |-> <<>>, threads |-> {1}] :
             k \in {"text", "host"}, n \in {1, 3}}
=============================================================================
