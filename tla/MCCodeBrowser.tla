--------------------------- MODULE MCCodeBrowser ---------------------------
(* The first key may be given any package of up to two entries, the others *)
(* a plain one each, of half the bytes that fit in the cache; the others   *)
(* are interchangeable.                                                    *)
EXTENDS CodeBrowser, TLC

SomeNames == {"", ".", "..", " a", "a", "b", "README"}
SomeRank == [n \in SomeNames |-> CASE n = "" -> 0 [] n = " a" -> 1 [] n = "." -> 2 [] n = ".." -> 3
                                   [] n = "README" -> 4 [] n = "a" -> 5 [] OTHER -> 6]
SomeLength == [n \in SomeNames |-> CASE n = "README" -> 6 [] n = "" -> 0 [] n \in {" a", ".."} -> 2 [] OTHER -> 1]
SomeTrim == [n \in SomeNames |-> IF n = " a" THEN "a" ELSE n]
NoTrim == [n \in SomeNames |-> n]

File(path, size) == [path |-> path, kind |-> "file", size |-> size, breaks |-> size + 1]
Broken(path, size, breaks) == [path |-> path, kind |-> "file", size |-> size, breaks |-> breaks]
Entries == {File(<<"README">>, 6), Broken(<<"a">>, 2, 2), File(<<"a", "b", "README">>, 1),
            File(<<"b", "..", "a">>, 1), File(<<"..", "b">>, 1), File(<<".", " a">>, 2),
            [path |-> <<"a">>, kind |-> "other", size |-> 0, breaks |-> 1]}
Archives == [format : {"zip", "tar.gz"}, entries : UNION {[1..n -> Entries] : n \in 0..2}]

CONSTANTS k1, k2, k3
Plain(format, size) ==
  [bytes |-> size,
   archive |-> [format |-> format, entries |-> <<File(<<"a">>, 1), File(<<"README">>, 1), File(<<"b", "a">>, 2)>>]]
SomePackages ==
  (k1 :> ([bytes : {2}, archive : Archives] \cup {Plain("rar", 1), Plain("tar", 1), Plain("tar", 3)}))
  @@ (k2 :> {Plain("tar", 1)}) @@ (k3 :> {Plain("tar", 1)})

Alike == Permutations(Readers) \cup Permutations({k2, k3})
=============================================================================
