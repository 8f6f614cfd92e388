----------------------------- MODULE OnktWatch -----------------------------
(***************************************************************************)
(* `onkt watch` (Watch, projectSnapshot and sameSnapshot of                *)
(* internal/onek/tooling.go): one goroutine that builds, takes a snapshot  *)
(* of the schemas and the config, and on every tick of its timer takes     *)
(* another one and builds again when it differs.  The builds are those of  *)
(* OnktBuild; the user edits while all this goes on.                       *)
(*                                                                         *)
(* `onkt mock` with its reloader (internal/onek/mockwatch.go, mock.go) is  *)
(* in the second half: one goroutine that compiles the project in memory,  *)
(* and on every tick compares a snapshot with the last one, as Watch does, *)
(* and compiles again.  Requests are served by the handler it stored last. *)
(* It neither reads nor writes generated files; a project is under         *)
(* `onkt watch` or under `onkt mock` here, the other command being "off".  *)
(***************************************************************************)
EXTENDS OnktBuild

CONSTANTS
  Toml,       \* the path of onkt.toml in a snapshot
  Settle,     \* stampSettleWindow
  EarlyEdits  \* whether the user edits before the first snapshot is taken

ASSUME WatchAssumption ==
  Toml \notin Group /\ Settle \in Nat /\ EarlyEdits \in BOOLEAN

VARIABLES
  touched,   \* the mtimes of the schemas and of the config
  wpc,       \* where Watch is
  previous,  \* the snapshot it compares with
  misread,   \* history: <<directory, text>>, the text a build took for its
             \* fingerprint where it compiled another
  replaced   \* history: <<path, contents>>, what an edit replaced since the
             \* last snapshot that was followed by a build

watchVars == <<wpc, previous>>
pastVars == <<misread, replaced>>
allVars == <<vars, touched, watchVars, pastVars>>

Path == Group \cup {Toml}
Says(p) == IF p = Toml THEN config ELSE schema[p]

-----------------------------------------------------------------------------
(* Snapshots.                                                              *)

\* A stamp whose hash was taken well after the last change is reused.
Reusable(stamp, p) ==
  /\ stamp # Nothing /\ stamp.hashedAt - stamp.mtime > Settle
  /\ stamp.mtime = touched[p]

Stamp(p, stamp) ==
  IF Says(p) = Nothing THEN Nothing
  ELSE IF Reusable(stamp, p) THEN stamp
  ELSE [mtime |-> touched[p], hashedAt |-> now, digest |-> Says(p)]

Snapshot(before) == [p \in Path |-> Stamp(p, before[p])]

SameStamp(l, r) ==
  \/ l = Nothing /\ r = Nothing
  \/ /\ l # Nothing /\ r # Nothing
     /\ l.mtime = r.mtime /\ l.digest = r.digest

SameSnapshot(left, right) == \A p \in Path : SameStamp(left[p], right[p])

NoSnapshot == [p \in Path |-> Nothing]

-----------------------------------------------------------------------------
(* The user.                                                               *)

MayEdit == EarlyEdits \/ wpc \notin {"initial", "building first", "first"}

Replaces(p) ==
  /\ touched' = [touched EXCEPT ![p] = now]
  /\ replaced' = replaced \cup {<<p, Says(p)>>}

\* Schemas change at any time, the config only between builds: what a change
\* of it does to a running build is the subject of CachedIsExact.
Edit ==
  /\ MayEdit
  /\ \/ \E g \in Group, t \in Text \cup {Nothing} : EditSchema(g, t) /\ Replaces(g)
     \/ \E c \in Config : pc = "idle" /\ EditConfig(c) /\ Replaces(Toml)
  /\ UNCHANGED <<watchVars, misread>>

-----------------------------------------------------------------------------
(* Watch.                                                                  *)

InitialBuild ==
  /\ wpc = "initial" /\ Start
  /\ wpc' = "building first"
  /\ UNCHANGED <<touched, previous, pastVars>>

\* Watch returns an error of the initial build.
InitialEnds ==
  /\ wpc = "building first" /\ pc = "idle"
  /\ wpc' = IF result \in {"failed", "unwritten"} THEN "returned" ELSE "first"
  /\ UNCHANGED <<vars, touched, previous, pastVars>>

FirstSnapshot ==
  /\ wpc = "first"
  /\ previous' = Snapshot(NoSnapshot)
  /\ wpc' = "sleep"
  /\ UNCHANGED <<vars, touched, pastVars>>

\* A tick that finds a change: the snapshot is replaced before the build.
Poll ==
  /\ wpc = "sleep"
  /\ ~SameSnapshot(previous, Snapshot(previous))
  /\ previous' = Snapshot(previous)
  /\ Start
  /\ wpc' = "building" /\ replaced' = {}
  /\ UNCHANGED <<touched, misread>>

Bug_RebuildEndsSnapshot ==
  /\ wpc = "building" /\ pc = "idle"
  /\ previous' = Snapshot(previous)
  /\ wpc' = "sleep"
  /\ UNCHANGED <<vars, touched, pastVars>>

\* A failed build is reported, and the watch goes on.
RebuildEnds ==
  /\ wpc = "building" /\ pc = "idle"
  /\ wpc' = "sleep"
  /\ UNCHANGED <<vars, touched, previous, pastVars>>

BuildStep ==
  /\ Work
  /\ misread' = misread \cup
       {<<g, b.sum.schema[g]>> : g \in {h \in Group :
          /\ pc = "compile" /\ pc' = "plan"
          /\ Recording /\ b'.read[h] # b.sum.schema[h]}}
  /\ UNCHANGED <<touched, watchVars, replaced>>

BuildBreaks == WriteFails /\ UNCHANGED <<touched, watchVars, pastVars>>

Clock == Tick /\ UNCHANGED <<touched, watchVars, pastVars>>

WatchInit ==
  /\ Init
  /\ touched = [p \in Path |-> 0]
  /\ wpc = "initial" /\ previous = NoSnapshot /\ misread = {} /\ replaced = {}

WatchStep ==
  InitialBuild \/ InitialEnds \/ FirstSnapshot \/ Poll \/ RebuildEnds \/ BuildStep

WatchNext == Edit \/ Clock \/ WatchStep \/ BuildBreaks

\* The timer ticks and builds end; the user need not edit.
WatchSpec == WatchInit /\ [][WatchNext]_allVars /\ WF_allVars(WatchStep)

-----------------------------------------------------------------------------
\* An edit was undone and left no sign of itself.  A directory says again what
\* a build took for its fingerprint and did not compile, so that later builds
\* find the entry up to date (buildcache.go:246); or something was changed
\* after the snapshot and set back within a tick of the file system's clock, or
\* was there only in between, so that the next snapshot is the same.
Undone ==
  \/ \E g \in Group : <<g, schema[g]>> \in misread
  \/ \E p \in Path : <<p, Says(p)>> \in replaced

\* Once the user rests, the generated tree is what a full build would write,
\* whatever they changed, removed or brought back while builds ran
\* (tooling.go:197, "Watch performs an initial build and rebuilds after
\* schema/config changes").  Except: schemas that do not compile; a last build
\* that could not write its outputs, which is not tried again before the next
\* edit; an edit that was undone and left no sign of itself.
WatchConverges ==
  <>[](/\ wpc \notin {"returned", "off"} /\ Compiles(schema)
       /\ result # "unwritten" /\ ~Undone
       => AllExact)

-----------------------------------------------------------------------------
(* `onkt mock`.                                                            *)

VARIABLES
  mpc,       \* where the reloader is
  snapshot,  \* r.snapshot
  loaded,    \* cfg of the NewMockServer that runs, or Nothing
  built,     \* the server newMockReloader has built and not yet stored
  serving    \* what r.handler was built from, or Nothing

mockVars == <<mpc, snapshot, loaded, built, serving>>
everyVars == <<allVars, mockVars>>

Others == UNCHANGED allVars

\* What a mock server compiled now would serve.
Server == [config |-> loaded, texts |-> schema]

-----------------------------------------------------------------------------
(* newMockReloader.                                                        *)

\* loadOptionalConfig, of the first server or of one after a change.
MockLoads ==
  /\ \/ mpc = "initial" /\ mpc' = "compile first"
     \/ mpc = "load" /\ mpc' = "compile"
  /\ loaded' = config
  /\ Others /\ UNCHANGED <<snapshot, built, serving>>

\* compileTree; newMockReloader returns its error.
FirstCompile ==
  /\ mpc = "compile first"
  /\ \/ Compiles(schema) /\ mpc' = "first" /\ built' = Server
     \/ ~Compiles(schema) /\ mpc' = "returned" /\ UNCHANGED built
  /\ loaded' = Nothing
  /\ Others /\ UNCHANGED <<snapshot, serving>>

MockFirstSnapshot ==
  /\ mpc = "first"
  /\ snapshot' = Snapshot(NoSnapshot)
  /\ serving' = built /\ built' = Nothing
  /\ mpc' = "sleep"
  /\ Others /\ UNCHANGED loaded

-----------------------------------------------------------------------------
(* reload.                                                                 *)

\* A tick that finds a change; the snapshot is replaced before the build.
Reload ==
  /\ mpc = "sleep"
  /\ ~SameSnapshot(snapshot, Snapshot(snapshot))
  /\ snapshot' = Snapshot(snapshot)
  /\ mpc' = "load" /\ replaced' = {}
  /\ UNCHANGED <<vars, touched, watchVars, misread, loaded, built, serving>>

Bug_SnapshotAfterwards ==
  /\ mpc = "compile"
  /\ serving' = IF Compiles(schema) THEN Server ELSE serving
  /\ snapshot' = Snapshot(snapshot)
  /\ loaded' = Nothing
  /\ mpc' = "sleep"
  /\ Others /\ UNCHANGED built

\* compileTree; a schema that does not compile leaves the old handler.
Recompile ==
  /\ mpc = "compile"
  /\ serving' = IF Compiles(schema) THEN Server ELSE serving
  /\ loaded' = Nothing
  /\ mpc' = "sleep"
  /\ Others /\ UNCHANGED <<snapshot, built>>

-----------------------------------------------------------------------------
MockStep == MockLoads \/ FirstCompile \/ MockFirstSnapshot \/ Reload \/ Recompile

MockIdle ==
  /\ snapshot = NoSnapshot /\ loaded = Nothing /\ built = Nothing /\ serving = Nothing

\* One of the two commands runs.
EitherInit ==
  \/ WatchInit /\ MockIdle /\ mpc = "off"
  \/ /\ Init /\ touched = [p \in Path |-> 0]
     /\ wpc = "off" /\ previous = NoSnapshot /\ misread = {} /\ replaced = {}
     /\ MockIdle /\ mpc = "initial"

MockSettled == EarlyEdits \/ mpc \notin {"initial", "compile first", "first"}

EitherNext ==
  \/ Edit /\ MockSettled /\ UNCHANGED mockVars
  \/ (Clock \/ WatchStep \/ BuildBreaks) /\ UNCHANGED mockVars
  \/ MockStep

\* The timers tick, builds and compilations end; the user need not edit.
EitherSpec ==
  /\ EitherInit /\ [][EitherNext]_everyVars
  /\ WF_everyVars(WatchStep /\ UNCHANGED mockVars) /\ WF_everyVars(MockStep)

-----------------------------------------------------------------------------
\* Once the user rests, the mock answers from the schemas and the config as
\* they are, unless they do not compile or an edit left no sign (mockwatch.go:58,
\* "rebuilds it whenever the project's schema or config changes"), provided no
\* edit came before the reloader's first snapshot.
MockConverges ==
  <>[](mpc \notin {"returned", "off"} /\ Compiles(schema) /\ ~Undone =>
         serving = [config |-> config, texts |-> schema])
=============================================================================
