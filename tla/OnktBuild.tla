----------------------------- MODULE OnktBuild -----------------------------
(***************************************************************************)
(* `onkt build` (internal/onek: build.go, buildcache.go, incremental.go,   *)
(* build_output.go, build_manifest.go): one build process on a project     *)
(* directory, the cache entry and the manifest it leaves behind for the    *)
(* next one, and a user who edits schemas, the config and generated files. *)
(*                                                                         *)
(* A schema directory (a "group") is one text; each has one per-directory  *)
(* output, and the project-wide targets are one output, Whole.  The data   *)
(* of a file stands for its digest; all files have one size, the case in   *)
(* which the code has least to go by.                                      *)
(***************************************************************************)
EXTENDS Integers, FiniteSets, Functions

CONSTANTS
  Group,     \* schema directories
  Text,      \* what a directory's schema files may say
  Broken,    \* a text that does not compile
  Config,    \* contents of onkt.toml
  Tool,      \* onkt binaries
  Reads,     \* [Group -> SUBSET Group]: the directories a group's output depends on
  Refs,      \* [Group -> SUBSET Group]: those groupDependencies finds, and the group
  Whole,     \* the output of the project-wide targets
  Handmade,  \* the data of a file without the generated banner
  Tampered,  \* the data of a generated file changed by hand, banner kept
  Torn,      \* the data of a file whose creation was cut short
  Nothing,   \* no such file, directory or entry
  Acts,      \* what the user does: "schema", "config", "tool", "output"
  Meanwhile, \* whether the user does it while a build runs
  CanFail,   \* whether builds fail or are killed half way
  Racy,      \* buildCacheRacy
  MaxTime, MaxActs  \* bounds on the clock and on what the user does

ASSUME BuildAssumption ==
  /\ Reads \in [Group -> SUBSET Group] /\ Refs \in [Group -> SUBSET Group]
  /\ \A g \in Group : g \in Refs[g] /\ Refs[g] \subseteq Reads[g]
  /\ Broken \in Text /\ Nothing \notin Text
  /\ {Whole, Nothing} \cap Group = {} /\ Whole # Nothing
  /\ Acts \subseteq {"schema", "config", "tool", "output"}
  /\ {Meanwhile, CanFail} \subseteq BOOLEAN
  /\ Racy \in Nat /\ MaxTime \in Nat /\ MaxActs \in Nat

VARIABLES
  schema,    \* [Group -> Text \cup {Nothing}]
  config,    \* the contents of onkt.toml
  tool,      \* the onkt binary
  disk,      \* [File -> a file or Nothing]: the generated tree
  manifest,  \* the outputs .onekit/manifest.json lists
  entry,     \* the build cache entry, or Nothing
  now,       \* the clock that mtimes are taken from
  pc, b,     \* the build process and its locals
  result,    \* how the last build ended
  acts,      \* how often the user has acted
  settled,   \* history: nobody has touched anything since a build ended well
  lost       \* history: files of builds that did not end well, in no manifest

userVars == <<schema, config, tool, acts>>
keptVars == <<disk, manifest, entry>>
vars == <<userVars, keptVars, now, pc, b, result, settled, lost>>

File == Group \cup {Whole}

-----------------------------------------------------------------------------
(* Inputs and outputs.                                                     *)

Present(s) == {g \in Group : s[g] # Nothing}

Compiles(s) ==
  /\ Present(s) # {}
  /\ \A g \in Present(s) : s[g] # Broken /\ Reads[g] \subseteq Present(s)

\* What the generators write to f: tool t, config c, schemas s.
Gen(f, s, c, t) ==
  [tool |-> t, config |-> c,
   texts |-> IF f = Whole THEN s ELSE Restrict(s, Reads[f])]

Expected(s) == Present(s) \cup {Whole}

\* The hash groupFingerprints takes of one directory.
GroupSum(g, s) == [set |-> Present(s), texts |-> Restrict(s, Refs[g])]

Locals == [cfg |-> Nothing, sum |-> Nothing, read |-> Nothing, prev |-> Nothing,
           todo |-> {}, digests |-> <<>>]

Recording == b.sum # Nothing

-----------------------------------------------------------------------------
(* The user, and time.                                                     *)

MayAct(kind) ==
  /\ kind \in Acts /\ acts < MaxActs
  /\ Meanwhile \/ pc = "idle"
  /\ acts' = acts + 1 /\ settled' = FALSE
  /\ UNCHANGED <<manifest, entry, now, pc, b, result, lost>>

EditSchema(g, t) ==
  /\ MayAct("schema")
  /\ t # schema[g]
  /\ schema' = [schema EXCEPT ![g] = t]
  /\ UNCHANGED <<config, tool, disk>>

EditConfig(c) ==
  /\ MayAct("config")
  /\ c # config /\ config' = c
  /\ UNCHANGED <<schema, tool, disk>>

\* Another onkt is installed, not under a running build.
Upgrade(t) ==
  /\ MayAct("tool") /\ pc = "idle"
  /\ t # tool /\ tool' = t
  /\ UNCHANGED <<schema, config, disk>>

\* A generated file is edited, replaced or deleted by hand.
EditOutput(f) ==
  /\ MayAct("output")
  /\ disk[f] # Nothing
  /\ \/ \E d \in {Handmade, Tampered} :
          disk' = [disk EXCEPT ![f] = [data |-> d, mtime |-> now]]
     \/ disk' = [disk EXCEPT ![f] = Nothing]
  /\ UNCHANGED <<schema, config, tool>>

Tick ==
  /\ now < MaxTime /\ now' = now + 1
  /\ UNCHANGED <<userVars, keptVars, pc, b, result, settled, lost>>

-----------------------------------------------------------------------------
(* What a recorded output says of a file: the stamp, and the data unless   *)
(* the stamp is older than the entry by more than the racy window.         *)

Bug_RecentIsChanged(f, e) ==
  /\ disk[f] # Nothing
  /\ disk[f].mtime = e.outs[f].mtime
  /\ e.savedAt - disk[f].mtime > Racy

Unchanged(f, e) ==
  /\ disk[f] # Nothing
  /\ disk[f].mtime = e.outs[f].mtime
  /\ e.savedAt - disk[f].mtime > Racy \/ disk[f].data = e.outs[f].data

OutputsUnchanged(e) ==
  /\ DOMAIN e.outs # {}
  /\ \A f \in DOMAIN e.outs : Unchanged(f, e)

SameExecutable(e) == e # Nothing /\ e.tool = tool

Bug_IgnoresConfig(g, e) ==
  /\ e.set = Present(b.read)
  /\ g \in DOMAIN e.groups /\ e.groups[g] = GroupSum(g, b.sum.schema)
  /\ IF g \in DOMAIN e.outs THEN Unchanged(g, e) ELSE disk[g] = Nothing

\* planIncremental keeps g: its fingerprint and its outputs are as they were.
KeepsGroup(g, e) ==
  /\ e.config = b.sum.config /\ e.set = Present(b.read)
  /\ g \in DOMAIN e.groups /\ e.groups[g] = GroupSum(g, b.sum.schema)
  /\ IF g \in DOMAIN e.outs THEN Unchanged(g, e) ELSE disk[g] = Nothing

-----------------------------------------------------------------------------
(* build, one step for every pass over the project's files.                *)

To(where, locals) ==
  /\ pc' = where /\ b' = locals
  /\ UNCHANGED <<userVars, now, result, settled, lost>>

\* The files of a tree that are as a generator wrote them.
Written(files) ==
  {f \in File : files[f] # Nothing /\ files[f].data \notin {Handmade, Tampered, Torn}}

End(how) ==
  /\ pc' = "idle" /\ b' = Locals /\ result' = how
  /\ lost' = IF how \in {"failed", "unwritten", "killed"} THEN lost \cup (Written(disk') \ manifest) ELSE lost
  /\ UNCHANGED <<userVars, now>>

\* LoadConfig.
Start ==
  /\ pc = "idle" /\ pc' = "fingerprint"
  /\ b' = [Locals EXCEPT !.cfg = config]
  /\ result' = "running"
  /\ UNCHANGED <<userVars, keptVars, now, settled, lost>>

\* buildFingerprint; without one the build goes on and is not recorded.
Fingerprint ==
  /\ pc = "fingerprint"
  /\ \/ To("try", [b EXCEPT !.sum = [schema |-> schema, config |-> config]])
     \/ CanFail /\ To("compile", b)
  /\ UNCHANGED keptVars

\* tryCachedBuild.
TryCached ==
  /\ pc = "try" /\ UNCHANGED keptVars
  /\ LET mine == SameExecutable(entry)
         hit == mine /\ entry.sum = b.sum /\ OutputsUnchanged(entry)
     IN  IF hit THEN End("cached") /\ UNCHANGED settled
         ELSE To("compile", [b EXCEPT !.prev = IF mine THEN entry ELSE Nothing])

\* The directories of the files discovered first: those the build reads again
\* later (the discovery memo).  One that is gone makes the build fail.
Known == IF Recording THEN Present(b.sum.schema)
         ELSE IF b.read # Nothing THEN Present(b.read) ELSE Present(schema)

Found == [g \in Group |-> IF g \in Known THEN schema[g] ELSE Nothing]

Gone == \E g \in Known : schema[g] = Nothing

Compile ==
  /\ pc = "compile" /\ UNCHANGED keptVars
  /\ IF Gone \/ ~Compiles(Found)
     THEN End("failed") /\ settled' = FALSE
     ELSE To("plan", [b EXCEPT !.read = Found])

Bug_KeepsAll(clean) == [f \in DOMAIN b.prev.outs |-> b.prev.outs[f].data]

\* The digests of the kept outputs, which the next entry records too.
Kept(clean) == [f \in clean \cap DOMAIN b.prev.outs |-> b.prev.outs[f].data]

Plan ==
  /\ pc = "plan"
  /\ LET clean == {g \in Present(b.read) :
                     Recording /\ b.prev # Nothing /\ KeepsGroup(g, b.prev)}
     IN  To("write", [b EXCEPT !.todo = Expected(b.read) \ clean,
                               !.digests = IF clean = {} THEN <<>> ELSE Kept(clean)])
  /\ UNCHANGED keptVars

\* What the build has written, with f.
Recorded(digests, f, data) ==
  [g \in DOMAIN digests \cup {f} |-> IF g = f THEN data ELSE digests[g]]

\* writeFile: create, leave a file that already says so, or replace.
Write(f) ==
  /\ pc = "write" /\ f \in b.todo
  /\ LET data == Gen(f, b.read, b.cfg, tool)
     IN  /\ disk' = IF disk[f] # Nothing /\ disk[f].data = data THEN disk
                    ELSE [disk EXCEPT ![f] = [data |-> data, mtime |-> now]]
         /\ To("write", [b EXCEPT !.todo = @ \ {f},
                                  !.digests = Recorded(@, f, data)])
  /\ UNCHANGED <<manifest, entry>>

\* A target's error ends the build.
WriteFails ==
  /\ pc = "write" /\ b.todo # {} /\ CanFail
  /\ UNCHANGED keptVars
  /\ End("unwritten") /\ settled' = FALSE

Bug_NothingStale == {}

\* What the last manifest lists, this build does not write, and still has the
\* banner (a file cut short has none yet).
Stale == {f \in manifest \ Expected(b.read) :
            disk[f] # Nothing /\ disk[f].data \notin {Handmade, Torn}}

\* cleanupStaleGeneratedOutputs.
RemoveStale(f) ==
  /\ pc = "write" /\ b.todo = {} /\ f \in Stale
  /\ disk' = [disk EXCEPT ![f] = Nothing]
  /\ To("write", b)
  /\ UNCHANGED <<manifest, entry>>

\* writeGenerationManifest, which reads the schemas once more.
WriteManifest ==
  /\ pc = "write" /\ b.todo = {} /\ Stale = {}
  /\ UNCHANGED <<disk, entry>>
  /\ IF Gone
     THEN /\ End("failed") /\ settled' = FALSE
          /\ UNCHANGED manifest
     ELSE manifest' = Expected(b.read) /\ To("save", b)

\* saveBuildCache stamps the outputs as they are on disk by now; the digests
\* are of what the build wrote.
Save ==
  /\ pc = "save" /\ UNCHANGED <<disk, manifest>>
  /\ IF Recording /\ \A f \in DOMAIN b.digests : disk[f] # Nothing
     THEN entry' = [sum |-> b.sum, tool |-> tool, config |-> b.sum.config,
                    savedAt |-> now, set |-> Present(b.read),
                    groups |-> [g \in Present(b.read) |-> GroupSum(g, b.sum.schema)],
                    outs |-> [f \in DOMAIN b.digests |->
                                [data |-> b.digests[f], mtime |-> disk[f].mtime]]]
     ELSE UNCHANGED entry
  /\ End("built") /\ settled' = Recording

\* The process is killed; a file it was creating may be cut short (replaced
\* files are renamed into place).
Crash ==
  /\ CanFail /\ pc # "idle"
  /\ \/ UNCHANGED disk
     \/ \E f \in b.todo : /\ pc = "write" /\ disk[f] = Nothing
                          /\ disk' = [disk EXCEPT ![f] = [data |-> Torn, mtime |-> now]]
  /\ End("killed") /\ settled' = FALSE
  /\ UNCHANGED <<manifest, entry>>

-----------------------------------------------------------------------------
Init ==
  /\ schema \in [Group -> (Text \ {Broken}) \cup {Nothing}] /\ Compiles(schema)
  /\ config \in Config /\ tool \in Tool
  /\ disk = [f \in File |-> Nothing] /\ manifest = {} /\ entry = Nothing
  /\ now = 0 /\ pc = "idle" /\ b = Locals /\ result = "none"
  /\ acts = 0 /\ settled = FALSE /\ lost = {}

User ==
  \/ \E g \in Group, t \in Text \cup {Nothing} : EditSchema(g, t)
  \/ \E c \in Config : EditConfig(c)
  \/ \E t \in Tool : Upgrade(t)
  \/ \E f \in File : EditOutput(f)

Work ==
  \/ Fingerprint \/ TryCached \/ Compile \/ Plan
  \/ (\E f \in File : Write(f) \/ RemoveStale(f))
  \/ WriteManifest \/ Save

Next == User \/ Tick \/ Start \/ Work \/ WriteFails \/ Crash

Spec == Init /\ [][Next]_vars

-----------------------------------------------------------------------------
(* Properties.                                                             *)

TypeOK ==
  /\ schema \in [Group -> Text \cup {Nothing}]
  /\ config \in Config /\ tool \in Tool
  /\ DOMAIN disk = File /\ \A f \in File : disk[f] # Nothing => disk[f].mtime \in 0..now
  /\ manifest \subseteq File /\ lost \subseteq File
  /\ entry # Nothing => DOMAIN entry.outs \subseteq File /\ entry.savedAt \in 0..now
  /\ pc \in {"idle", "fingerprint", "try", "compile", "plan", "write", "save"}
  /\ b.todo \subseteq File /\ DOMAIN b.digests \subseteq File \ b.todo
  /\ result \in {"none", "running", "cached", "built", "failed", "unwritten", "killed"}

Exact(f) == /\ disk[f] # Nothing
            /\ disk[f].data = Gen(f, schema, config, tool)

AllExact == \A f \in Expected(schema) : Exact(f)

Ends(hows) == pc # "idle" /\ pc' = "idle" /\ result' \in hows

\* Whatever was edited, upgraded, killed or failed before, a build that ends
\* well leaves what a full build of the same project would: nothing it skips
\* or keeps is out of date (tryCachedBuild, planIncremental; the tests'
\* TestIncrementalBuildMatchesAFullBuild).
MatchesFullBuild == [][Ends({"built", "cached"}) => AllExact']_vars

\* buildcache.go:242, "tryCachedBuild reports whether the previous build is
\* still exact", also where the user works while builds run: a build that is
\* skipped in a project which nobody has touched since a build ended well
\* leaves exact outputs, whatever happened before that one ended.
CachedIsExact == [][settled /\ Ends({"cached"}) => AllExact']_vars

\* A build of a project nobody touched since a build ended well is skipped
\* (README: "the build is skipped and reports up to date"): the entry accepts
\* the very outputs it was saved with, kept ones included.
UnchangedIsSkipped == [][pc = "try" /\ settled => pc' # "compile"]_vars

\* After a build the manifest lists every generated file, so none is orphaned
\* when its directory goes away, but those a build left behind that failed or
\* was killed (cleanup comes before the manifest is replaced).
ManifestComplete ==
  [][Ends({"built"}) => Written(disk') \subseteq manifest' \cup lost]_vars
=============================================================================
