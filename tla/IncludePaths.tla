---------------------------- MODULE IncludePaths ----------------------------
(***************************************************************************)
(* How the file of an include is found, on disk and in memory              *)
(* (email-markup-core/src/include.cpp).                                    *)
(*                                                                         *)
(* A path from the root is a sequence of names.  A written path is a       *)
(* record of whether it starts at the root and of its parts, ".." among    *)
(* them; empty parts and "." are left out.  A disk has directories, files  *)
(* (name, size and contents) and links to directories; a link that leads   *)
(* back to itself is left out.  A loop over the parts of a path is a       *)
(* function of how many of them are passed.                                *)
(***************************************************************************)
EXTENDS Integers, SequencesExt

CONSTANTS Name, Markup, Contents, MaximumBytes
ASSUME NamesAreNames == Markup \subseteq Name /\ Name \cap {"..", "no path"} = {}

Path == Seq(Name)
Part == Name \cup {".."}
Request == [absolute : BOOLEAN, parts : Seq(Part)]

NoPath == <<"no path">>
NotFound == [path |-> NoPath, contents |-> "none"]
Parent(path) == IF path = <<>> THEN path ELSE Front(path)
IsMarkup(path) == path # <<>> /\ Last(path) \in Markup
Written(base, request) == IF request.absolute THEN request.parts ELSE base \o request.parts

\* What the disk holds: everything is in a directory, names are not shared.
Table(R) == UNION {[D -> R] : D \in SUBSET Path}
IsDisk(disk) ==
  LET there == disk.directories \cup DOMAIN disk.files IN
  /\ <<>> \in disk.directories
  /\ \A path \in there : \A k \in 0..(Len(path) - 1) : SubSeq(path, 1, k) \in disk.directories
  /\ disk.directories \cap DOMAIN disk.files = {}
  /\ DOMAIN disk.links \cap there = {}
  /\ \A link \in DOMAIN disk.links : disk.links[link] \in disk.directories
Disk ==
  {disk \in [directories : SUBSET Path, files : Table([size : Nat, contents : Contents]),
             links : Table(Path)] : IsDisk(disk)}

\* lexically_normal of a path from the root: nothing is above it.
Step(path, part) == IF part = ".." THEN Parent(path) ELSE Append(path, part)
NormalUpTo(parts) ==
  LET normal[k \in 0..Len(parts)] == IF k = 0 THEN <<>> ELSE Step(normal[k - 1], parts[k])
  IN normal
LexicallyNormal(parts) == NormalUpTo(parts)[Len(parts)]

\* What the system finds along the parts: links are followed, ".." is the parent
\* of where they lead, and nothing is behind what is not a directory.
Onward(disk, path, part) ==
  LET next == Step(path, part) IN
  CASE path \notin disk.directories -> NoPath
    [] path \in disk.directories /\ next \in DOMAIN disk.links -> disk.links[next]
    [] path \in disk.directories /\ next \in disk.directories \cup DOMAIN disk.files -> next
    [] OTHER -> NoPath
WalkUpTo(disk, parts) ==
  LET walk[k \in 0..Len(parts)] == IF k = 0 THEN <<>> ELSE Onward(disk, walk[k - 1], parts[k])
  IN walk
Walk(disk, parts) == WalkUpTo(disk, parts)[Len(parts)]
Exists(disk, parts) == Walk(disk, parts) # NoPath

\* std::filesystem::weakly_canonical: the part that exists is walked, the rest
\* is only normalised.
\* Mutant: the whole path is only normalised.
WeaklyCanonicalByName(disk, parts) == LexicallyNormal(parts)
WeaklyCanonical(disk, parts) ==
  LET known == CHOOSE k \in 0..Len(parts) :
                 /\ \A j \in 0..k : Exists(disk, SubSeq(parts, 1, j))
                 /\ k < Len(parts) => ~ Exists(disk, SubSeq(parts, 1, k + 1))
  IN LexicallyNormal(Walk(disk, SubSeq(parts, 1, known))
                       \o SubSeq(parts, known + 1, Len(parts)))

Beneath(child, root) == IsPrefix(root, child)
Allowed(path, roots) == roots = {} \/ \E root \in roots : Beneath(path, root)

\* The first base, if any, behind which a file is accepted.
First(bases, found) ==
  LET good == {i \in DOMAIN bases : found[i] # NotFound} IN
  IF good = {} THEN NotFound ELSE found[CHOOSE i \in good : \A j \in good : i <= j]

\* DiskFileResolver::resolve.
OnDisk(disk, path, roots) ==
  LET file == Walk(disk, path)  \* a link behind a missing part is followed
      canonicalRoots == {WeaklyCanonical(disk, root) : root \in roots}
  IN IF /\ file \in DOMAIN disk.files
        /\ IsMarkup(path)
        /\ Allowed(path, canonicalRoots)
        /\ disk.files[file].size <= MaximumBytes
     THEN [path |-> path, contents |-> disk.files[file].contents] ELSE NotFound
DiskResolve(disk, including, request, search, roots) ==
  LET bases == <<Parent(including)>> \o search IN
  First(bases, [i \in DOMAIN bases |->
                  OnDisk(disk, WeaklyCanonical(disk, Written(bases[i], request)), roots)])

\* normalize_virtual_path: a path that leaves the root is none.
VirtualStep(path, part) ==
  IF path = NoPath \/ (part = ".." /\ path = <<>>) THEN NoPath ELSE Step(path, part)
VirtualUpTo(parts) ==
  LET virtual[k \in 0..Len(parts)] == IF k = 0 THEN <<>> ELSE VirtualStep(virtual[k - 1], parts[k])
  IN virtual
NormalizeVirtualPath(parts) == VirtualUpTo(parts)[Len(parts)]

\* MemoryFileResolver: files are kept under their normal paths; one that cannot
\* be kept makes the constructor throw.
Keeps(listed) ==
  LET paths == [i \in DOMAIN listed |-> NormalizeVirtualPath(listed[i].parts)] IN
  /\ \A i \in DOMAIN listed : /\ listed[i].absolute
                              /\ IsMarkup(paths[i])
                              /\ listed[i].size <= MaximumBytes
  /\ \A i, j \in DOMAIN listed : paths[i] = paths[j] => i = j

\* MemoryFileResolver::resolve.
\* Mutant: the directories of the search come before the includer's own.
MemoryBasesSearchFirst(including, request, search) ==
  IF request.absolute THEN <<<<>>>> ELSE Append(search, Parent(including))
MemoryBases(including, request, search) ==
  IF request.absolute THEN <<<<>>>> ELSE <<Parent(including)>> \o search
InMemory(listed, path, roots) ==
  LET kept == {i \in DOMAIN listed : NormalizeVirtualPath(listed[i].parts) = path} IN
  IF /\ kept # {} /\ IsMarkup(path)
     /\ Allowed(path, {NormalizeVirtualPath(root) : root \in roots})
  THEN [path |-> path, contents |-> listed[CHOOSE i \in kept : TRUE].contents] ELSE NotFound
MemoryResolve(listed, including, request, search, roots) ==
  LET bases == MemoryBases(including, request, search) IN
  First(bases, [i \in DOMAIN bases |->
                  InMemory(listed, NormalizeVirtualPath(Written(bases[i], request)), roots)])

-----------------------------------------------------------------------------
\* A file that a path reaches has one name, the one without links, however it
\* is asked for: the loader tells the files of an include graph apart by this
\* name, and the roots are compared with it (include.cpp:73-94).  A request, or a
\* root, through a directory that is missing is not meant: its rest is not walked.
OneName(disk, including, request, search, roots) ==
  LET found == DiskResolve(disk, including, request, search, roots)
      bases == <<Parent(including)>> \o search
      Reaches(i) == Walk(disk, Written(bases[i], request))
      Opens(i) ==
        /\ Reaches(i) \in DOMAIN disk.files
        /\ IsMarkup(Reaches(i))
        /\ disk.files[Reaches(i)].size <= MaximumBytes
        /\ roots = {} \/ \E root \in roots :
             Exists(disk, root) /\ Beneath(Reaches(i), Walk(disk, root))
  IN (/\ \A i \in DOMAIN bases : Exists(disk, Parent(Written(bases[i], request)))
      /\ \A root \in roots : Walk(disk, Parent(root)) \in disk.directories) =>
       IF \E i \in DOMAIN bases : Opens(i)
       THEN \E i \in DOMAIN bases : /\ Opens(i) /\ found.path = Reaches(i)
                                    /\ \A j \in 1..(i - 1) : ~ Opens(j)
                                    /\ found.contents = disk.files[Reaches(i)].contents
       ELSE found = NotFound

\* The files in memory are those on the disk that an include may open.
SameFiles(disk, listed) ==
  LET open == {path \in DOMAIN disk.files :
                 IsMarkup(path) /\ disk.files[path].size <= MaximumBytes}
  IN {<<NormalizeVirtualPath(listed[i].parts), listed[i].contents>> : i \in DOMAIN listed}
       = {<<path, disk.files[path].contents>> : path \in open}

\* A document compiles from memory as it does from disk: without links, and
\* while ".." stays within the root, an include finds the same file in both, by
\* the same name (include.cpp:66-96 and 125-160).
SameFromMemory(disk, listed, including, request, search, roots) ==
  LET bases == <<Parent(including)>> \o search IN
  (/\ disk.links = <<>>
   /\ \A i \in DOMAIN bases : NormalizeVirtualPath(Written(bases[i], request)) # NoPath
   /\ \A root \in roots : NormalizeVirtualPath(root) # NoPath
   /\ Keeps(listed) /\ SameFiles(disk, listed))
  => MemoryResolve(listed, including, request, search, roots)
       = DiskResolve(disk, including, request, search, roots)
=============================================================================
