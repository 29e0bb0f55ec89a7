--------------------------- MODULE LanguageServer ---------------------------
(***************************************************************************)
(* `sqletch lsp`: the message loop of internal/lsp/server.go and the       *)
(* OfflineChecker of internal/cli/offline.go behind it.                    *)
(*                                                                         *)
(* Messages are handled one at a time, but the files a check reads belong  *)
(* to everybody: the developer saves, moves and deletes templates, and a   *)
(* `generate` in another terminal rewrites the committed cache, also while *)
(* a check is under way.  The checker keeps three memos: the analysis of a *)
(* file by content, the resolution of the targets by directory signatures, *)
(* the catalog by the signatures of the schema and of the catalog file.    *)
(***************************************************************************)
EXTENDS Naturals, FiniteSets, SequencesExt

CONSTANTS
    Order,        \* the paths a file may be spelled with, sorted
    File,         \* File[p]: the file behind a path, symbolic links resolved
    Glob,         \* the paths the targets' patterns reach, one per file
    Target,       \* Target[p], for p in Glob: the generated package
    Contents,     \* records [queries, bad, illegal, twice]
    Start,        \* file -> its content when the server starts
    Schemas,      \* contents of the schema files
    MaxOpenDocs,  \* maxOpenDocuments
    MaxMemo,      \* maxMemoEntries
    MaxShown,     \* maxPublishedDiagnostics
    Races,        \* what may change while a check is under way
    Panics,       \* whether the analysis of a message may panic
    MaxWrites,    \* bound: writes to the disk by others
    None,         \* no buffer, file, entry or memo
    Locked        \* a file that cannot be read

Paths == ToSet(Order)
Files == {File[p] : p \in Paths}
Names == UNION {c.queries : c \in Contents}
Targets == {Target[p] : p \in Glob}
Config == "sqletch.yaml"

\* queries: the queries a text defines; bad: the scanner or a catalog-free rule
\* refuses it; illegal: a catalog-dependent rule refuses it under catalogs of
\* the second generation; twice: it and the configuration declare one override.
ASSUME ServerAssumption ==
    /\ Order \in Seq(ToSet(Order)) /\ IsInjective(Order)
    /\ Glob \subseteq Paths /\ Config \notin Paths /\ Schemas # {}
    /\ \A p, r \in Glob : File[p] = File[r] => p = r
    /\ \A c \in Contents : /\ {c.bad, c.illegal, c.twice} \subseteq BOOLEAN
                           /\ IsFiniteSet(c.queries)
    /\ Start \in [{File[p] : p \in Paths} -> Contents]
    /\ MaxOpenDocs \in Nat /\ MaxMemo \in Nat \ {0} /\ MaxShown \in Nat /\ MaxWrites \in Nat
    /\ Races \subseteq {"files", "dirs", "schema", "catalog", "entries"}
    /\ Panics \in BOOLEAN
    /\ None \notin Contents /\ None \notin Schemas /\ Locked \notin Contents /\ None # Locked

Kinds == <<"unreadable", "scan", "duplicate", "override", "resolved", "targets">>
Keys == Paths \cup {Config}
NoCatalog == [fp |-> None, gen |-> 0]

VARIABLES
    \* the disk; a signature is the number of the write that left it behind
    disk,      \* file -> content, Locked or None
    dirSig,    \* signature of the directories the targets' patterns visit
    schema,    \* [text, sig] of the schema files
    catalog,   \* [fp, gen, sig] of catalog.json
    entries,   \* <<target, query>> -> [fp, text] of its oracle entries, or None
    writes,    \* how many writes there were
    \* the server
    pc,        \* where the handling of a message is
    overlay,   \* path -> the content of an open document
    published, \* the paths whose last publish was not empty
    last,      \* path -> the source of the last snapshot
    memo,      \* path -> the content its memoized analysis is of
    tgtMemo,   \* the memoized resolution
    catMemo,   \* the memoized catalog
    check,     \* locals of a Check
    \* the client
    shown,     \* path -> the diagnostics it displays
    dirty      \* history: something changed since the last check began

disks == <<disk, dirSig, schema, catalog, entries, writes>>
memos == <<memo, tgtMemo, catMemo>>
vars == <<disks, pc, overlay, published, last, memos, check, shown, dirty>>

Open == {p \in Paths : overlay[p] # None}
Resolution == {p \in Glob : disk[File[p]] # None}
EntryOf(p) == [fp |-> schema.text, text |-> disk[File[p]]]
NoCheck == [res |-> {}, sources |-> [p \in Paths |-> None], diags |-> [k \in Keys |-> {}],
            dup |-> {}, sig |-> 0, cat |-> NoCatalog]

Init ==
    /\ disk = Start
    /\ dirSig = 0
    /\ schema = [text |-> CHOOSE s \in Schemas : TRUE, sig |-> 0]
    \* nothing was generated yet, or everything is committed
    /\ \/ /\ catalog = [fp |-> None, gen |-> 0, sig |-> 0]
          /\ entries = [e \in Targets \X Names |-> None]
       \/ /\ catalog \in [fp : {schema.text}, gen : {0, 1}, sig : {0}]
          /\ entries = [e \in Targets \X Names |->
                            LET own == {p \in Glob : Target[p] = e[1] /\ e[2] \in disk[File[p]].queries}
                            IN  IF own = {} THEN None
                                ELSE EntryOf(Order[Min({i \in DOMAIN Order : Order[i] \in own})])]
    /\ writes = 0
    /\ pc = "idle"
    /\ overlay = [p \in Paths |-> None]
    /\ published = {} /\ last = [p \in Paths |-> None]
    /\ memo = [p \in Paths |-> None] /\ tgtMemo = None /\ catMemo = None
    /\ check = NoCheck
    /\ shown = [k \in Keys |-> {}]
    /\ dirty = TRUE

-----------------------------------------------------------------------------
(* The others.                                                             *)

\* A write, between two messages or during a check where that may happen.
Write(what) ==
    /\ writes < MaxWrites
    /\ pc = "idle" \/ (what \in Races /\ pc # "exited")
    /\ writes' = writes + 1
    /\ dirty' = TRUE
    /\ UNCHANGED <<pc, overlay, published, last, memos, check, shown>>

\* A file's text changes in place, or becomes unreadable.
SaveFile ==
    /\ Write("files")
    /\ \E f \in {g \in Files : disk[g] # None}, c \in Contents \cup {Locked} :
           c # disk[f] /\ disk' = [disk EXCEPT ![f] = c]
    /\ UNCHANGED <<dirSig, schema, catalog, entries>>

\* A file appears or disappears: its directory's signature moves.
MoveFile ==
    /\ Write("dirs")
    /\ \E f \in Files :
           \/ disk[f] = None /\ \E c \in Contents : disk' = [disk EXCEPT ![f] = c]
           \/ disk[f] # None /\ disk' = [disk EXCEPT ![f] = None]
    /\ dirSig' = writes'
    /\ UNCHANGED <<schema, catalog, entries>>

EditSchema ==
    /\ Write("schema")
    /\ \E s \in Schemas \ {schema.text} : schema' = [text |-> s, sig |-> writes']
    /\ UNCHANGED <<disk, dirSig, catalog, entries>>

\* `generate` adopts a catalog for the schema it read ...
WriteCatalog ==
    /\ Write("catalog")
    /\ \E g \in {0, 1} : catalog' = [fp |-> schema.text, gen |-> g, sig |-> writes']
    /\ UNCHANGED <<disk, dirSig, schema, entries>>

\* ... and writes the entries of a query of a file it read.
WriteEntry ==
    /\ Write("entries")
    /\ \E p \in Glob : /\ disk[File[p]] \in Contents
                       /\ \E n \in disk[File[p]].queries :
                             entries' = [entries EXCEPT ![<<Target[p], n>>] = EntryOf(p)]
    /\ UNCHANGED <<disk, dirSig, schema, catalog>>

-----------------------------------------------------------------------------
(* Messages.                                                               *)

\* check().
BeginCheck ==
    /\ pc' = "targets"
    /\ check' = NoCheck
    /\ dirty' = FALSE
    /\ UNCHANGED <<disks, published, last, memos, shown>>

\* trackOverlay: a new document is refused at the cap; none is evicted for it.
Tracks(p, c) ==
    /\ overlay[p] # None \/ Cardinality(Open) < MaxOpenDocs
    /\ overlay' = [overlay EXCEPT ![p] = c]

\* didOpen, and didChange with a change: of an untracked document too.
DidOpenOrChange ==
    /\ pc = "idle"
    /\ \E p \in Paths, c \in Contents : Tracks(p, c)
    /\ BeginCheck

\* didSave, a didChange without a change: the disk may have moved under us.
DidSave ==
    /\ pc = "idle"
    /\ BeginCheck
    /\ UNCHANGED overlay

DidClose ==
    /\ pc = "idle"
    /\ \E p \in Paths : overlay' = [overlay EXCEPT ![p] = None]
    /\ BeginCheck

\* exit, or the end of the stream.
Exit ==
    /\ pc = "idle" /\ pc' = "exited"
    /\ UNCHANGED <<disks, overlay, published, last, memos, check, shown, dirty>>

\* A panic in the analysis is caught by dispatch; the snapshot is lost.
Panic ==
    /\ Panics
    /\ pc \in {"read", "resolve"}
    /\ pc' = "idle" /\ check' = NoCheck /\ dirty' = TRUE
    /\ UNCHANGED <<disks, overlay, published, last, memos, shown>>

-----------------------------------------------------------------------------
(* Check.                                                                  *)

Within == <<disks, overlay, dirty>>

TargetsCurrent == IF tgtMemo = None THEN FALSE ELSE tgtMemo.sig = dirSig

\* resolveTargets: the memo while no directory it consulted changed, ...
ReuseTargets ==
    /\ pc = "targets" /\ TargetsCurrent
    /\ check' = [check EXCEPT !.res = tgtMemo.res]
    /\ pc' = "read"
    /\ UNCHANGED <<Within, published, last, memos, shown>>

\* ... else a walk ...
WalkTargets ==
    /\ pc = "targets" /\ ~TargetsCurrent
    /\ check' = [check EXCEPT !.res = Resolution]
    /\ pc' = "stat"
    /\ UNCHANGED <<Within, published, last, memos, shown>>

\* ... whose directories are looked at afterwards.
StatTargets ==
    /\ pc = "stat"
    /\ tgtMemo' = [sig |-> dirSig, res |-> check.res]
    /\ pc' = "read"
    /\ UNCHANGED <<Within, published, last, memo, catMemo, check, shown>>

\* The add loop over the paths of S: one that leads to the file of an added
\* one is dropped.
Added(S, base) ==
    LET paths[i \in 0..Len(Order)] ==
            IF i = 0 THEN base
            ELSE LET added == paths[i - 1]
                 IN  IF Order[i] \in S /\ \A r \in added : File[r] # File[Order[i]]
                     THEN added \cup {Order[i]} ELSE added
    IN  paths[Len(Order)]

\* Open buffers come first.
FilesOf(res) == Added(res, Added(Open, {}))

Source(p) == IF overlay[p] # None THEN overlay[p] ELSE disk[File[p]]
Readable(p) == Source(p) \in Contents

\* analyzeFile: a memo of another text is replaced; a new path clears the memo
\* of all paths once it is full.
Analyze(mm, p, src) ==
    LET full == mm[p] = None /\ Cardinality({r \in Paths : mm[r] # None}) >= MaxMemo
    IN  IF mm[p] = src THEN mm
        ELSE IF full THEN [r \in Paths |-> IF r = p THEN src ELSE None]
        ELSE [mm EXCEPT ![p] = src]

\* The memo after the per-file phase over the paths that could be read.
Analyzed(good) ==
    LET after[i \in 0..Len(Order)] ==
            IF i = 0 THEN memo
            ELSE LET prev == after[i - 1]
                     p == Order[i]
                 IN  IF p \in good THEN Analyze(prev, p, Source(p)) ELSE prev
    IN  after[Len(Order)]

\* The scope of a query name is the target of its file; a buffer outside every
\* target is checked in a scope of its own kind.
Scope(res, p) == IF p \in res THEN Target[p] ELSE None

\* The workspace phase: the first definition in path order wins.
Claims(res, good, text) ==
    LET st[i \in 0..Len(Order)] ==
            IF i = 0 THEN [names |-> {}, dup |-> {}]
            ELSE LET prev == st[i - 1]
                     p == Order[i]
                     own == {Scope(res, p)} \X text[p].queries
                 IN  IF p \notin good THEN prev
                     ELSE [names |-> prev.names \cup own,
                           dup |-> prev.dup \cup {<<p, e[2]>> : e \in own \cap prev.names}]
    IN  st[Len(Order)].dup

When(b, kind) == IF b THEN {kind} ELSE {}

\* The per-file phase and the workspace phase.
ReadFiles ==
    LET paths == FilesOf(check.res)
        good == {p \in paths : Readable(p)}
        mm == Analyzed(good)
        \* the analysis each path got, whatever became of its memo later
        text == [p \in good |-> IF mm[p] # None THEN mm[p] ELSE Source(p)]
        dup == Claims(check.res, good, text)
    IN  /\ pc = "read"
        /\ memo' = mm
        /\ check' = [check EXCEPT
              !.sources = [p \in Paths |-> IF p \in good THEN Source(p) ELSE None],
              !.dup = dup,
              !.diags = [p \in Keys |->
                  IF p \in good
                  THEN When(text[p].bad, "scan")
                       \cup When(({p} \X text[p].queries) \cap dup # {}, "duplicate")
                       \cup When(text[p].twice /\ ~({p} \X text[p].queries \subseteq dup), "override")
                  ELSE When(p \in paths, "unreadable")
                       \cup When(p = Config /\ check.res = {}, "targets")]]
        /\ pc' = "schema"
        /\ UNCHANGED <<Within, published, last, tgtMemo, catMemo, shown>>

CatalogCurrent ==
    IF catMemo = None THEN FALSE ELSE catMemo.schema = schema.sig /\ catMemo.sig = catalog.sig

\* loadCatalog: the memo while the schema and the catalog file are unchanged, ...
ReuseCatalog ==
    /\ pc = "schema" /\ CatalogCurrent
    /\ check' = [check EXCEPT !.cat = catMemo.cat]
    /\ pc' = "resolve"
    /\ UNCHANGED <<Within, published, last, memos, shown>>

StatSchema ==
    /\ pc = "schema" /\ ~CatalogCurrent
    /\ check' = [check EXCEPT !.sig = schema.sig]
    /\ pc' = "load"
    /\ UNCHANGED <<Within, published, last, memos, shown>>

\* ... else the schema is read and the catalog of its fingerprint loaded, ...
LoadCatalog ==
    /\ pc = "load"
    /\ check' = [check EXCEPT !.cat = IF catalog.fp = schema.text
                                      THEN [fp |-> catalog.fp, gen |-> catalog.gen]
                                      ELSE NoCatalog]
    /\ pc' = "record"
    /\ UNCHANGED <<Within, published, last, memos, shown>>

RecordCatalog_SchemaNow ==
    /\ pc = "record"
    /\ catMemo' = [schema |-> schema.sig, sig |-> catalog.sig, cat |-> check.cat]
    /\ pc' = "resolve"
    /\ UNCHANGED <<Within, published, last, memo, tgtMemo, check, shown>>
\* ... and remembered with the signature the catalog file has afterwards.
RecordCatalog ==
    /\ pc = "record"
    /\ catMemo' = [schema |-> check.sig, sig |-> catalog.sig, cat |-> check.cat]
    /\ pc' = "resolve"
    /\ UNCHANGED <<Within, published, last, memo, tgtMemo, check, shown>>

\* loadDescs: the entries of every rendering of a query, or none of them.
Described(res, p, n, text, fp) ==
    LET e == IF p \in res THEN entries[<<Target[p], n>>] ELSE None
    IN  e # None /\ e = [fp |-> fp, text |-> text]

\* The catalog-dependent phase looks the analysis up in the memo again.
Checked == {p \in Paths : check.sources[p] # None}
Resolvable == check.cat # NoCatalog => \A p \in Checked : memo[p] # None

ResolvePanics ==
    /\ pc = "resolve" /\ ~Resolvable
    /\ pc' = "idle" /\ check' = NoCheck /\ dirty' = TRUE
    /\ UNCHANGED <<disks, overlay, published, last, memos, shown>>

\* What resolvedChecks says of a query under a catalog.
Refused(text, cat) == text.illegal /\ cat.gen = 1

Resolved ==
    [p \in Keys |->
        check.diags[p] \cup
        When(/\ check.cat # NoCatalog
             /\ p \in Checked /\ check.diags[p] = {}
             /\ \E n \in memo[p].queries :
                   /\ <<p, n>> \notin check.dup
                   /\ Described(check.res, p, n, memo[p], check.cat.fp)
                   /\ Refused(memo[p], check.cat),
             "resolved")]

\* At most MaxShown diagnostics, and a note that there are more.
Place == [k \in ToSet(Kinds) |-> CHOOSE i \in DOMAIN Kinds : Kinds[i] = k]
Truncated(ds) ==
    LET first == {k \in ds : Cardinality({j \in ds : Place[j] < Place[k]}) < MaxShown}
    IN  IF first = ds THEN ds ELSE first \cup {"more"}

Publishes_Forgetful(ds) == Open \cup {p \in Keys : ds[p] # {}}
\* Open documents, files with diagnostics, and files that had some.
Publishes(ds) == Open \cup {p \in Keys : ds[p] # {}} \cup published

ResolveAndPublish ==
    LET ds == Resolved
        sent == Publishes(ds)
    IN  /\ pc = "resolve" /\ Resolvable
        /\ shown' = [p \in Keys |-> IF p \in sent THEN Truncated(ds[p]) ELSE shown[p]]
        /\ published' = {p \in sent : Truncated(ds[p]) # {}}
        /\ last' = check.sources
        /\ pc' = "idle" /\ check' = NoCheck
        /\ UNCHANGED <<Within, memos>>

-----------------------------------------------------------------------------
Others == SaveFile \/ MoveFile \/ EditSchema \/ WriteCatalog \/ WriteEntry
Message == DidOpenOrChange \/ DidSave \/ DidClose \/ Exit
Checking == \/ ReuseTargets \/ WalkTargets \/ StatTargets \/ ReadFiles
            \/ ReuseCatalog \/ StatSchema \/ LoadCatalog \/ RecordCatalog
            \/ ResolvePanics \/ ResolveAndPublish

Next == Others \/ Message \/ Checking \/ Panic

Spec == Init /\ [][Next]_vars

-----------------------------------------------------------------------------
(* What the diagnostics of a workspace are, read off the disk and the open *)
(* documents without a memo, a phase or an order of work.                  *)

Rank == [p \in Paths |-> CHOOSE i \in DOMAIN Order : Order[i] = p]
Texts ==
    LET opened == {p \in Open : ~\E r \in Open : File[r] = File[p] /\ Rank[r] < Rank[p]}
        matched == {p \in Resolution : ~\E r \in Open : File[r] = File[p]}
    IN  [p \in opened \cup matched |-> IF p \in Open THEN overlay[p] ELSE disk[File[p]]]

Sound(texts) == {p \in DOMAIN texts : texts[p] \in Contents}

\* The names of p's queries that a file before it in its target defines.
Taken(texts, p) ==
    {n \in texts[p].queries :
        \E r \in Sound(texts) : /\ Rank[r] < Rank[p] /\ n \in texts[r].queries
                                 /\ Scope(Resolution, r) = Scope(Resolution, p)}

WithoutCatalog(texts, p) ==
    When(texts[p].bad, "scan")
    \cup When(Taken(texts, p) # {}, "duplicate")
    \cup When(texts[p].twice /\ Taken(texts, p) # texts[p].queries, "override")

WithCatalog(texts, p) ==
    When(/\ WithoutCatalog(texts, p) = {}
         /\ catalog.fp = schema.text /\ Refused(texts[p], catalog)
         /\ \E n \in texts[p].queries \ Taken(texts, p) :
               Described(Resolution, p, n, texts[p], schema.text),
         "resolved")

Diagnosis ==
    LET texts == Texts
    IN  [k \in Keys |->
            CASE k = Config -> When(Resolution = {}, "targets")
              [] k \in Sound(texts) -> WithoutCatalog(texts, k) \cup WithCatalog(texts, k)
              [] OTHER -> When(k \in DOMAIN texts, "unreadable")]

-----------------------------------------------------------------------------
(* Properties.                                                             *)

\* The memos are invisible: once a check ran over a disk that has not changed
\* since it began, the client displays what the files and buffers are worth,
\* whatever earlier checks left in the memos or on the client's screen, and
\* whatever changed, panicked, was closed or was refused before; and a
\* definition is looked up in the texts the diagnostics are about.
MemosInvisible ==
    pc \in {"idle", "exited"} /\ ~dirty =>
        LET ds == Diagnosis
            texts == Texts
        IN  /\ shown = [k \in Keys |-> Truncated(ds[k])]
            /\ last = [p \in Paths |-> IF p \in DOMAIN texts /\ texts[p] # Locked THEN texts[p] ELSE None]

\* The server knows what the client displays: a path is cleared before it is
\* forgotten (the record published of check()).
NothingForgotten == {k \in Keys : shown[k] # {}} = published

\* "Wholesale clearing is always safe": what analyzeFile says of the memo; no
\* path of a check is without its analysis when the catalog phase needs it.
ClearingIsSafe == pc = "resolve" => Resolvable
=============================================================================
