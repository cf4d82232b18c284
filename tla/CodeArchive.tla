---------------------------- MODULE CodeArchive ----------------------------
(***************************************************************************)
(* What the code browser shows of a packed project (code_browse.go): which *)
(* entries of an archive are listed, the tree that is built of them, and   *)
(* what opening a listed file yields.                                      *)
(*                                                                         *)
(* An archive has a format and a sequence of entries; an entry a raw path, *)
(* as the sequence of its names between slashes of either kind, a kind, the*)
(* size the archive gives it and, in a zip, the place where reading it     *)
(* breaks off: at 0 if it cannot be opened at all, in the middle if its    *)
(* bytes are not what was declared, and beyond its size if all is well.    *)
(* How names are ordered, and what is left of one when the blanks before or*)
(* after it are cut off, are constants.  Left out: how bytes are packed,   *)
(* headers of several blocks, names with a zero byte, paths over 400 bytes,*)
(* binary files, languages, and the search for a file name.                *)
(***************************************************************************)
EXTENDS Integers, SequencesExt

CONSTANTS
  Names, Rank,       \* the names in paths, in the order of strings
  Length,            \* how long each name is
  TrimLeft, TrimRight,  \* each name without the blanks before and after it
  Readmes,           \* those that are, in lower case, a README's
  MaxEntries,        \* maxCodeTreeEntries
  MaxUnpacked,       \* maxTotalUncompressedBytes
  MaxPreview,        \* maxCodeFilePreviewBytes
  MaxDownload,       \* maxDownloadableFileBytes
  Block              \* of a tar stream: a header, or a part of a file

ASSUME NamesAssumption == Rank \in [Names -> Nat] /\ Length \in [Names -> Nat]
ASSUME TrimAssumption == TrimLeft \in [Names -> Names] /\ TrimRight \in [Names -> Names]
ASSUME LimitsAssumption ==
  /\ {MaxEntries, MaxUnpacked, MaxPreview, MaxDownload} \subseteq Nat
  /\ Block \in Nat \ {0} /\ MaxUnpacked % Block = 0

Entry == [path : Seq(Names), kind : STRING, size : Nat, breaks : Nat]
Archive == [format : STRING, entries : Seq(Entry)]

Refused == <<"..">>    \* no path that safeArchivePath lets through

(* path.Clean *)
Clean(raw) ==
  LET Walk(path, name) ==
        CASE name \in {".", ""} -> path
          [] name = ".." /\ path # <<>> /\ Last(path) # ".." -> Front(path)
          [] OTHER -> Append(path, name)
  IN  FoldLeft(Walk, <<>>, raw)

(* strings.TrimSpace of a path *)
Trim(raw) ==
  LET begun == [raw EXCEPT ![1] = TrimLeft[raw[1]]]
  IN  [begun EXCEPT ![Len(raw)] = TrimRight[begun[Len(raw)]]]

(* safeArchivePath: without blanks around it and without a leading "./",   *)
(* in this order, and then relative, below the archive's root and not the  *)
(* root.  What it lets through it may change again, or refuse, when it is  *)
(* given it a second time: "./ a" becomes " a", and that becomes "a".      *)
Safe(raw) ==
  LET trimmed == Trim(raw)
      inside == IF Head(trimmed) = "." THEN Tail(trimmed) ELSE trimmed
      path == Clean(inside)
  IN  IF raw = <<>> \/ inside = <<>> \/ Head(inside) = "" \/ path = <<>> \/ Head(path) = ".."
      THEN Refused ELSE path

(* It neither begins nor ends in a blank. *)
Bare(path) == TrimLeft[Head(path)] = Head(path) /\ TrimRight[Last(path)] = Last(path)

Path(a, i) == Safe(a.entries[i].path)
Regular(a, i) == a.entries[i].kind = "file" /\ Path(a, i) # Refused

Sum(S, f(_)) == MapThenSumSet(f, S)

(* tarStream: of a compressed tar only so much is unpacked, headers and    *)
(* skipped entries included; a zip is read entry by entry.                 *)
Blocks(e) == Block + ((e.size + Block - 1) \div Block) * Block

Reached(a, i) ==
  a.format = "tar.gz" => Sum(1..i - 1, LAMBDA j : Blocks(a.entries[j])) + Block <= MaxUnpacked

Unpacked(a, i) ==
  a.format = "tar.gz" => Sum(1..i, LAMBDA j : Blocks(a.entries[j])) <= MaxUnpacked

(* listZipEntries, listTarEntries: the first entry that is over a limit    *)
(* ends the list.                                                          *)
Over(a, i) ==
  /\ Regular(a, i)
  /\ LET files == {j \in 1..i : Regular(a, j)} IN
     \/ Sum(files, LAMBDA j : a.entries[j].size) > MaxUnpacked
     \/ Cardinality(files) > MaxEntries

(* So does, unnoticed, the end of the stream before an entry.              *)
Stop(a) == Min({i \in DOMAIN a.entries : Over(a, i) \/ ~Reached(a, i)} \cup {Len(a.entries) + 1})

Listed(a) == {i \in 1..Stop(a) - 1 : Regular(a, i)}

(* parseCodeArchive: the formats there are, and whether the list can be    *)
(* read: the stream does not end within an entry.                          *)
Supported(a) == a.format \in {"zip", "tar", "tar.gz"}
WellFormed(a) == \A i \in 1..Stop(a) - 1 : Unpacked(a, i)

(* Opening a file ---------------------------------------------------------*)

First(S) == IF S = {} THEN 0 ELSE Min(S)

(* Faulty: the entry is looked up by the name it has in the archive. *)
MatchRaw(a, path) ==
  First({i \in DOMAIN a.entries : a.entries[i].kind = "file" /\ a.entries[i].path = path})

(* extractWith: the first entry whose cleaned path is asked for, 0 if none.*)
Match(a, path) == First({i \in DOMAIN a.entries : Regular(a, i) /\ Path(a, i) = path})

(* readLimited, readWhole: of an entry as many bytes are read as may be    *)
(* shown, and one more.                                                    *)
Sound(e) == e.breaks > e.size
Read(a, i, limit) ==
  LET e == a.entries[i] IN
  IF ~Unpacked(a, i) \/ (a.format = "zip" /\ ~Sound(e) /\ e.breaks <= limit) THEN [status |-> "malformed"]
  ELSE [status |-> "ok", content |-> Min({e.size, limit}), truncated |-> e.size > limit]

(* projectCodeFileHandler, readFile: the path is cleaned once more.  The   *)
(* size is that of the list, the content that of the entry.                *)
ReadFile(a, asked) ==
  LET path == Safe(asked)
      listed == {j \in Listed(a) : Path(a, j) = path}
      at == Match(a, path)
      file == Read(a, at, MaxPreview)
  IN  IF path = Refused THEN [status |-> "invalid"]
      ELSE IF listed = {} \/ at = 0 THEN [status |-> "not found"]
      ELSE IF file.status # "ok" THEN file
      ELSE [status |-> "ok", content |-> file.content, truncated |-> file.truncated,
            size |-> a.entries[Min(listed)].size]

(* projectCodeFileDownloadHandler, extractDownload: all of it or nothing.  *)
Download(a, asked) ==
  LET path == Safe(asked)
      at == Match(a, path)
      file == Read(a, at, MaxDownload)
  IN  IF path = Refused THEN [status |-> "invalid"]
      ELSE IF (\A j \in Listed(a) : Path(a, j) # path) \/ at = 0 THEN [status |-> "not found"]
      ELSE IF file.status # "ok" THEN file
      ELSE IF file.truncated THEN [status |-> "too large"]
      ELSE [status |-> "ok", content |-> file.content]

(* The tree ---------------------------------------------------------------*)

Directories(a) ==
  UNION {{SubSeq(Path(a, i), 1, n) : n \in 1..Len(Path(a, i)) - 1} : i \in Listed(a)}

Nodes(a) == {[path |-> d, dir |-> TRUE, at |-> 0] : d \in Directories(a)}
            \cup {[path |-> Path(a, i), dir |-> FALSE, at |-> i] : i \in Listed(a)}

Earlier(p, q) ==
  \/ IsStrictPrefix(p, q)
  \/ \E n \in 1..Min({Len(p), Len(q)}) :
       SubSeq(p, 1, n - 1) = SubSeq(q, 1, n - 1) /\ Rank[p[n]] < Rank[q[n]]

(* Faulty: directories before files, whatever their depth. *)
BeforeByKind(x, y) ==
  \/ x.dir /\ ~y.dir
  \/ x.dir = y.dir /\ Earlier(x.path, y.path)
  \/ x.dir = y.dir /\ x.path = y.path /\ x.at < y.at

(* buildCodeTree lists the nodes by depth, by directory, directories before*)
(* files, and by path; what is alike stays in the archive's order.         *)
Before(x, y) ==
  LET p == Front(x.path)  q == Front(y.path) IN
  \/ Len(p) < Len(q)
  \/ Len(p) = Len(q) /\ Earlier(p, q)
  \/ p = q /\ x.dir /\ ~y.dir
  \/ p = q /\ x.dir = y.dir /\ Earlier(x.path, y.path)
  \/ x.path = y.path /\ x.dir = y.dir /\ x.at < y.at

(* pickReadme: of the READMEs listed the one least deep, the shortest path *)
(* of these; 0 if there is none.                                           *)
PickReadme(a) ==
  LET Spelt(i) == Sum(DOMAIN Path(a, i), LAMBDA n : Length[Path(a, i)[n]] + 1)
      Better(best, i) ==
        IF i \notin Listed(a) \/ Last(Path(a, i)) \notin Readmes THEN best
        ELSE IF \/ best = 0
                \/ Len(Path(a, i)) < Len(Path(a, best))
                \/ Len(Path(a, i)) = Len(Path(a, best)) /\ Spelt(i) < Spelt(best)
             THEN i ELSE best
  IN  FoldLeftDomain(Better, 0, a.entries)
=============================================================================
