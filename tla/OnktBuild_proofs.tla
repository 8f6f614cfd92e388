-------------------------- MODULE OnktBuild_proofs --------------------------
(* What OnktBuild promises for every project: any directories, texts and   *)
(* dependencies, any number of edits, failures and kills.                  *)
EXTENDS OnktBuild, TLAPS

DiskOK == DOMAIN disk = File /\ \A f \in File : disk[f] # Nothing => disk[f].mtime \in 0..now

EntryOK == entry # Nothing => DOMAIN entry.outs \subseteq File /\ entry.savedAt \in 0..now

\* What a build remembers of the last entry is that entry.
LocalsOK ==
  /\ DOMAIN b = {"cfg", "sum", "read", "prev", "todo", "digests"}
  /\ b.prev \in {Nothing, entry}
  /\ b.todo \subseteq File /\ DOMAIN b.digests \subseteq File \ b.todo

BuildOK ==
  /\ schema \in [Group -> Text \cup {Nothing}] /\ config \in Config /\ tool \in Tool
  /\ now \in Nat /\ manifest \subseteq File /\ lost \subseteq File
  /\ pc \in {"idle", "fingerprint", "try", "compile", "plan", "write", "save"}
  /\ result \in {"none", "running", "cached", "built", "failed", "unwritten", "killed"}
  /\ DiskOK /\ EntryOK /\ LocalsOK

-----------------------------------------------------------------------------
(* Types.                                                                  *)

\* A file written now has a stamp within the clock.
LEMMA PutKeepsDiskOK ==
  ASSUME BuildOK, UNCHANGED now, NEW f \in File, NEW x,
         x = Nothing \/ x.mtime = now, disk' = [disk EXCEPT ![f] = x]
  PROVE  DiskOK'
  BY DEF BuildOK, DiskOK

\* A build that ends leaves types as they are, if it keeps files and entry.
LEMMA EndKeepsOK ==
  ASSUME BuildOK, NEW how \in {"cached", "built", "failed", "unwritten", "killed"}, End(how),
         DiskOK', EntryOK', manifest' \subseteq File
  PROVE  BuildOK'
<1>1. b' = Locals /\ pc' = "idle" /\ result' = how /\ now' = now /\ UNCHANGED userVars
  BY DEF End
<1>2. LocalsOK'
  BY <1>1 DEF LocalsOK, Locals
<1>3. lost' \subseteq File
  BY DEF End, BuildOK, Written
<1> QED
  BY <1>1, <1>2, <1>3 DEF BuildOK, userVars

\* A pass of a build leaves types as they are, if its locals have theirs.
LEMMA ToKeepsOK ==
  ASSUME BuildOK, NEW where \in {"try", "compile", "plan", "write", "save"}, NEW locals,
         To(where, locals), LocalsOK', DiskOK', manifest' \subseteq File, UNCHANGED entry
  PROVE  BuildOK'
  BY DEF To, BuildOK, EntryOK, userVars

\* The operators on inputs stay within the files there are.
LEMMA ExpectedFiles == \A s : Expected(s) \subseteq File /\ Whole \in Expected(s)
  BY DEF Expected, Present, File

\* The types hold at first.
LEMMA InitBuildOK == Init => BuildOK
  BY DEF Init, BuildOK, DiskOK, EntryOK, LocalsOK, Locals

\* Every step of the user and of a build keeps the types.
LEMMA NextBuildOK == BuildOK /\ [Next]_vars => BuildOK'
<1> SUFFICES ASSUME BuildOK, [Next]_vars PROVE BuildOK'
  OBVIOUS
<1>0. UNCHANGED keptVars /\ UNCHANGED now => DiskOK' /\ EntryOK' /\ manifest' \subseteq File
  BY DEF keptVars, BuildOK, DiskOK, EntryOK
<1>1. ASSUME NEW g \in Group, NEW t \in Text \cup {Nothing}, EditSchema(g, t) PROVE BuildOK'
  <2>1. UNCHANGED <<config, tool, disk, manifest, entry, now, pc, b, result, lost>>
    BY <1>1 DEF EditSchema, MayAct
  <2>2. schema' \in [Group -> Text \cup {Nothing}]
    BY <1>1 DEF EditSchema, BuildOK
  <2> QED
    BY <2>1, <2>2 DEF BuildOK, DiskOK, EntryOK, LocalsOK
<1>2. ASSUME NEW c \in Config, EditConfig(c) PROVE BuildOK'
  BY <1>2 DEF EditConfig, MayAct, BuildOK, DiskOK, EntryOK, LocalsOK
<1>3. ASSUME NEW t \in Tool, Upgrade(t) PROVE BuildOK'
  BY <1>3 DEF Upgrade, MayAct, BuildOK, DiskOK, EntryOK, LocalsOK
<1>4. ASSUME NEW f \in File, EditOutput(f) PROVE BuildOK'
  <2>1. UNCHANGED <<schema, config, tool, manifest, entry, now, pc, b, result, lost>>
    BY <1>4 DEF EditOutput, MayAct
  <2>2. PICK x : disk' = [disk EXCEPT ![f] = x] /\ (x = Nothing \/ x.mtime = now)
    BY <1>4 DEF EditOutput
  <2>3. DiskOK'
    BY <2>1, <2>2, PutKeepsDiskOK
  <2> QED
    BY <2>1, <2>3 DEF BuildOK, EntryOK, LocalsOK
<1>5. CASE Tick
  <2>1. now' = now + 1 /\ UNCHANGED <<userVars, keptVars, pc, b, result, settled, lost>>
    BY <1>5 DEF Tick
  <2>2. DiskOK' /\ EntryOK'
    BY <2>1 DEF BuildOK, DiskOK, EntryOK, keptVars
  <2> QED
    BY <2>1, <2>2 DEF BuildOK, LocalsOK, userVars, keptVars
<1>6. CASE Start
  <2>1. LocalsOK'
    BY <1>6 DEF Start, LocalsOK, Locals
  <2>2. DiskOK' /\ EntryOK' /\ manifest' \subseteq File
    BY <1>0, <1>6 DEF Start
  <2> QED
    BY <1>6, <2>1, <2>2 DEF Start, BuildOK, userVars
<1>7. CASE Fingerprint
  <2>1. PICK l : /\ l \in {b, [b EXCEPT !.sum = [schema |-> schema, config |-> config]]}
                 /\ To("try", l) \/ To("compile", l)
    BY <1>7 DEF Fingerprint
  <2>2. UNCHANGED keptVars /\ b' = l /\ UNCHANGED now
    BY <1>7, <2>1 DEF Fingerprint, To
  <2>3. LocalsOK'
    BY <2>1, <2>2 DEF BuildOK, LocalsOK, keptVars
  <2> QED
    BY <1>0, <2>1, <2>2, <2>3, ToKeepsOK DEF keptVars
<1>8. CASE TryCached
  <2>1. \/ End("cached")
        \/ \E p \in {Nothing, entry} : To("compile", [b EXCEPT !.prev = p])
    BY <1>8 DEF TryCached
  <2>2. UNCHANGED keptVars
    BY <1>8 DEF TryCached
  <2>3. CASE End("cached")
    BY <1>0, <2>2, <2>3, EndKeepsOK DEF End
  <2>4. ASSUME NEW p \in {Nothing, entry}, To("compile", [b EXCEPT !.prev = p]) PROVE BuildOK'
    <3>1. b' = [b EXCEPT !.prev = p] /\ UNCHANGED <<now, entry>>
      BY <2>2, <2>4 DEF To, keptVars
    <3>2. LocalsOK'
      BY <3>1 DEF BuildOK, LocalsOK
    <3> QED
      BY <1>0, <2>2, <2>4, <3>1, <3>2, ToKeepsOK
  <2> QED
    BY <2>1, <2>3, <2>4
<1>9. CASE Compile
  <2>1. End("failed") \/ To("plan", [b EXCEPT !.read = Found])
    BY <1>9 DEF Compile
  <2>2. UNCHANGED keptVars
    BY <1>9 DEF Compile
  <2>3. CASE End("failed")
    BY <1>0, <2>2, <2>3, EndKeepsOK DEF End
  <2>4. CASE To("plan", [b EXCEPT !.read = Found])
    <3>1. b' = [b EXCEPT !.read = Found] /\ UNCHANGED <<now, entry>>
      BY <2>2, <2>4 DEF To, keptVars
    <3>2. LocalsOK'
      BY <3>1 DEF BuildOK, LocalsOK
    <3> QED
      BY <1>0, <2>2, <2>4, <3>1, <3>2, ToKeepsOK
  <2> QED
    BY <2>1, <2>3, <2>4
<1>10. CASE Plan
  <2> DEFINE clean == {g \in Present(b.read) : Recording /\ b.prev # Nothing /\ KeepsGroup(g, b.prev)}
             digests == IF clean = {} THEN <<>> ELSE Kept(clean)
             locals == [b EXCEPT !.todo = Expected(b.read) \ clean, !.digests = digests]
  <2>1. To("write", locals) /\ UNCHANGED keptVars
    BY <1>10 DEF Plan
  <2>2. DOMAIN digests \subseteq clean
    BY DEF Kept
  <2>3. clean \subseteq File
    BY DEF Present, File
  <2>4. b' = locals /\ UNCHANGED <<now, entry>>
    BY <2>1 DEF To, keptVars
  <2> HIDE DEF digests, clean
  <2>5. LocalsOK'
    BY <2>2, <2>3, <2>4, ExpectedFiles DEF BuildOK, LocalsOK
  <2> QED
    BY <1>0, <2>1, <2>4, <2>5, ToKeepsOK
<1>11. ASSUME NEW f \in File, Write(f) PROVE BuildOK'
  <2> DEFINE data == Gen(f, b.read, b.cfg, tool)
             locals == [b EXCEPT !.todo = @ \ {f}, !.digests = Recorded(@, f, data)]
  <2>1. To("write", locals) /\ UNCHANGED <<manifest, entry, now>>
    BY <1>11 DEF Write, To
  <2>2. disk' = disk \/ disk' = [disk EXCEPT ![f] = [data |-> data, mtime |-> now]]
    BY <1>11 DEF Write
  <2>3. DiskOK'
    <3>1. CASE disk' = disk
      BY <2>1, <3>1 DEF BuildOK, DiskOK
    <3>2. CASE disk' = [disk EXCEPT ![f] = [data |-> data, mtime |-> now]]
      <4>1. [data |-> data, mtime |-> now].mtime = now
        OBVIOUS
      <4> QED
        BY <2>1, <3>2, <4>1, PutKeepsDiskOK
    <3> QED
      BY <2>2, <3>1, <3>2
  <2>4. DOMAIN Recorded(b.digests, f, data) = DOMAIN b.digests \cup {f}
    BY DEF Recorded
  <2>5. b' = locals
    BY <2>1 DEF To
  <2>6. LocalsOK'
    BY <2>1, <2>4, <2>5 DEF BuildOK, LocalsOK
  <2> QED
    BY <2>1, <2>3, <2>6, ToKeepsOK DEF BuildOK
<1>12. ASSUME NEW f \in File, RemoveStale(f) PROVE BuildOK'
  <2>1. To("write", b) /\ UNCHANGED <<manifest, entry, now, b>>
    BY <1>12 DEF RemoveStale, To
  <2>2. DiskOK'
    BY <1>12, <2>1, PutKeepsDiskOK DEF RemoveStale
  <2>3. LocalsOK'
    BY <2>1 DEF BuildOK, LocalsOK
  <2> QED
    BY <2>1, <2>2, <2>3, ToKeepsOK DEF BuildOK
<1>13. CASE WriteManifest
  <2>1. UNCHANGED <<disk, entry, now>>
    BY <1>13 DEF WriteManifest, End, To
  <2>2. DiskOK' /\ EntryOK'
    BY <2>1 DEF BuildOK, DiskOK, EntryOK
  <2>3. CASE End("failed") /\ UNCHANGED manifest
    BY <2>2, <2>3, EndKeepsOK DEF BuildOK
  <2>4. CASE manifest' = Expected(b.read) /\ To("save", b)
    <3>1. LocalsOK'
      BY <2>1, <2>4 DEF To, BuildOK, LocalsOK
    <3> QED
      BY <2>1, <2>2, <2>4, <3>1, ToKeepsOK, ExpectedFiles
  <2> QED
    BY <1>13, <2>3, <2>4 DEF WriteManifest
<1>14. CASE Save
  <2>1. UNCHANGED <<disk, manifest, now>> /\ End("built")
    BY <1>14 DEF Save, End
  <2>2. DiskOK' /\ manifest' \subseteq File
    BY <2>1 DEF BuildOK, DiskOK
  <2>3. EntryOK'
    <3>1. CASE UNCHANGED entry
      BY <2>1, <3>1 DEF BuildOK, EntryOK
    <3>2. CASE ~UNCHANGED entry
      <4>1. entry'.savedAt = now /\ DOMAIN entry'.outs = DOMAIN b.digests
        BY <1>14, <3>2 DEF Save
      <4> QED
        BY <2>1, <4>1 DEF BuildOK, EntryOK, LocalsOK
    <3> QED
      BY <3>1, <3>2
  <2> QED
    BY <2>1, <2>2, <2>3, EndKeepsOK
<1>15. CASE WriteFails
  <2>1. End("unwritten") /\ UNCHANGED keptVars
    BY <1>15 DEF WriteFails
  <2> QED
    BY <1>0, <2>1, EndKeepsOK DEF End
<1>16. CASE Crash
  <2>1. End("killed") /\ UNCHANGED <<manifest, entry, now>>
    BY <1>16 DEF Crash, End
  <2>2. DiskOK'
    <3>1. CASE UNCHANGED disk
      BY <2>1, <3>1 DEF BuildOK, DiskOK
    <3>2. ASSUME NEW f \in b.todo, disk' = [disk EXCEPT ![f] = [data |-> Torn, mtime |-> now]]
          PROVE  DiskOK'
      <4>1. f \in File /\ [data |-> Torn, mtime |-> now].mtime = now
        BY DEF BuildOK, LocalsOK
      <4> QED
        BY <2>1, <3>2, <4>1, PutKeepsDiskOK
    <3> QED
      BY <1>16, <3>1, <3>2 DEF Crash
  <2>3. EntryOK' /\ manifest' \subseteq File
    BY <2>1 DEF BuildOK, EntryOK
  <2> QED
    BY <2>1, <2>2, <2>3, EndKeepsOK
<1>17. CASE UNCHANGED vars
  BY <1>17 DEF vars, userVars, keptVars, BuildOK, DiskOK, EntryOK, LocalsOK
<1> QED
  BY <1>1, <1>2, <1>3, <1>4, <1>5, <1>6, <1>7, <1>8, <1>9, <1>10, <1>11, <1>12,
     <1>13, <1>14, <1>15, <1>16, <1>17 DEF Next, User, Work

\* The project, the tree, the manifest, the entry and the build's locals keep
\* their types; no entry and no stamp is from the future.
THEOREM TypeCorrect == Spec => []TypeOK
<1>1. BuildOK => TypeOK
  BY DEF BuildOK, DiskOK, EntryOK, LocalsOK, TypeOK
<1> QED
  BY <1>1, InitBuildOK, NextBuildOK, PTL DEF Spec

-----------------------------------------------------------------------------
(* Every generated file has an owner.                                      *)

\* A generated file is in the manifest, is what a broken build left, or is one
\* the running build writes, which its manifest will list.
OwnedInv ==
  /\ pc # "write" => Written(disk) \subseteq manifest \cup lost
  /\ pc = "write" => /\ Written(disk) \subseteq manifest \cup lost \cup Expected(b.read)
                     /\ b.todo \subseteq Expected(b.read)

\* Removing a file, or putting what no generator wrote there, adds none.
LEMMA PutAddsNone ==
  ASSUME BuildOK, NEW f \in File, NEW x, disk' = [disk EXCEPT ![f] = x],
         x = Nothing \/ x.data \in {Handmade, Tampered, Torn}
  PROVE  Written(disk') \subseteq Written(disk)
  BY DEF BuildOK, DiskOK, Written

\* A build that breaks off keeps account of what is in no manifest.
LEMMA BreaksOffOwned ==
  ASSUME OwnedInv, NEW how \in {"failed", "unwritten", "killed"}, End(how), UNCHANGED manifest
  PROVE  OwnedInv'
  BY DEF End, OwnedInv, Written

\* Nothing that is owned is lost sight of while files, manifest and step stay.
LEMMA SameOwned ==
  ASSUME OwnedInv, UNCHANGED <<disk, manifest, lost, pc, b>> PROVE OwnedInv'
  BY DEF OwnedInv, Written, Expected, Present

\* Every step keeps generated files owned; WriteManifest because cleanup came
\* first.
LEMMA NextOwnedInv == BuildOK /\ OwnedInv /\ [Next]_vars => OwnedInv'
<1> SUFFICES ASSUME BuildOK, OwnedInv, [Next]_vars PROVE OwnedInv'
  OBVIOUS
<1>1. ASSUME NEW g \in Group, NEW t \in Text \cup {Nothing}, EditSchema(g, t) PROVE OwnedInv'
  BY <1>1, SameOwned DEF EditSchema, MayAct
<1>2. ASSUME NEW c \in Config, EditConfig(c) PROVE OwnedInv'
  BY <1>2, SameOwned DEF EditConfig, MayAct
<1>3. ASSUME NEW t \in Tool, Upgrade(t) PROVE OwnedInv'
  BY <1>3, SameOwned DEF Upgrade, MayAct
<1>4. ASSUME NEW f \in File, EditOutput(f) PROVE OwnedInv'
  <2>1. UNCHANGED <<manifest, lost, pc, b>>
    BY <1>4 DEF EditOutput, MayAct
  <2>2. PICK x : /\ disk' = [disk EXCEPT ![f] = x]
                 /\ x = Nothing \/ x.data \in {Handmade, Tampered, Torn}
    BY <1>4 DEF EditOutput
  <2>3. Written(disk') \subseteq Written(disk)
    BY <2>2, PutAddsNone
  <2> QED
    BY <2>1, <2>3 DEF OwnedInv
<1>5. CASE Tick
  BY <1>5, SameOwned DEF Tick, keptVars
<1>6. CASE Start
  BY <1>6 DEF Start, keptVars, OwnedInv, Written
<1>7. CASE Fingerprint
  BY <1>7 DEF Fingerprint, To, keptVars, OwnedInv, Written
<1>8. CASE TryCached
  <2>1. pc = "try" /\ UNCHANGED keptVars /\ pc' \in {"idle", "compile"} /\ lost' = lost
    BY <1>8 DEF TryCached, To, End
  <2> QED
    BY <2>1 DEF keptVars, OwnedInv, Written
<1>9. CASE Compile
  <2>1. pc = "compile" /\ UNCHANGED keptVars
    BY <1>9 DEF Compile
  <2>2. CASE End("failed")
    BY <2>1, <2>2, BreaksOffOwned DEF keptVars
  <2>3. CASE To("plan", [b EXCEPT !.read = Found])
    BY <2>1, <2>3 DEF To, keptVars, OwnedInv, Written
  <2> QED
    BY <1>9, <2>2, <2>3 DEF Compile
<1>10. CASE Plan
  <2>1. PICK clean, d : To("write", [b EXCEPT !.todo = Expected(b.read) \ clean, !.digests = d])
    BY <1>10 DEF Plan
  <2>2. /\ b'.todo = Expected(b.read) \ clean /\ b'.read = b.read
        /\ pc = "plan" /\ pc' = "write" /\ UNCHANGED <<disk, manifest, lost>>
    BY <1>10, <2>1 DEF Plan, To, BuildOK, LocalsOK, keptVars
  <2> QED
    BY <2>2 DEF OwnedInv, Written, Expected, Present
<1>11. ASSUME NEW f \in File, Write(f) PROVE OwnedInv'
  <2>1. /\ pc = "write" /\ pc' = "write" /\ f \in b.todo /\ UNCHANGED <<manifest, lost>>
        /\ b'.todo = b.todo \ {f} /\ b'.read = b.read
    BY <1>11 DEF Write, To, BuildOK, LocalsOK
  <2>2. Written(disk') \subseteq Written(disk) \cup {f}
    BY <1>11 DEF Write, BuildOK, DiskOK, Written
  <2>3. Expected(b'.read) = Expected(b.read)
    BY <2>1
  <2> QED
    BY <2>1, <2>2, <2>3 DEF OwnedInv
<1>12. ASSUME NEW f \in File, RemoveStale(f) PROVE OwnedInv'
  <2>1. Written(disk') \subseteq Written(disk)
    BY <1>12, PutAddsNone DEF RemoveStale
  <2>2. pc = "write" /\ UNCHANGED <<manifest, lost, pc, b>>
    BY <1>12 DEF RemoveStale, To
  <2> QED
    BY <2>1, <2>2 DEF OwnedInv
<1>13. CASE WriteManifest
  <2>1. CASE End("failed") /\ UNCHANGED manifest
    BY <2>1, BreaksOffOwned
  <2>2. CASE manifest' = Expected(b.read) /\ To("save", b)
    <3>1. Written(disk) \subseteq Expected(b.read) \cup lost
      <4> SUFFICES ASSUME NEW f \in Written(disk), f \notin Expected(b.read), f \notin lost
                   PROVE  FALSE
        OBVIOUS
      <4>1. f \in manifest
        BY <1>13 DEF WriteManifest, OwnedInv
      <4>2. f \in Stale
        BY <4>1 DEF Stale, Written
      <4> QED
        BY <1>13, <4>2 DEF WriteManifest
    <3>2. pc' = "save" /\ UNCHANGED <<disk, lost>>
      BY <1>13, <2>2 DEF To, WriteManifest
    <3> QED
      BY <2>2, <3>1, <3>2 DEF OwnedInv, Written
  <2> QED
    BY <1>13, <2>1, <2>2 DEF WriteManifest
<1>14. CASE Save
  BY <1>14 DEF Save, End, OwnedInv, Written
<1>15. CASE WriteFails
  BY <1>15, BreaksOffOwned DEF WriteFails, keptVars
<1>16. CASE Crash
  BY <1>16, BreaksOffOwned DEF Crash
<1>17. CASE UNCHANGED vars
  BY <1>17, SameOwned DEF vars, keptVars
<1> QED
  BY <1>1, <1>2, <1>3, <1>4, <1>5, <1>6, <1>7, <1>8, <1>9, <1>10, <1>11, <1>12,
     <1>13, <1>14, <1>15, <1>16, <1>17 DEF Next, User, Work

\* The manifest of a build that ends well lists every generated file there is,
\* but for what broken builds left (writeGenerationManifest after
\* cleanupStaleGeneratedOutputs), whoever edits what and when.
THEOREM ManifestCompleteAlways == Spec => ManifestComplete
<1>1. Init => OwnedInv
  BY DEF Init, OwnedInv, Written
<1>2. OwnedInv /\ [Next]_vars => [Ends({"built"}) => Written(disk') \subseteq manifest' \cup lost]_vars
  <2> SUFFICES ASSUME OwnedInv, Next, Ends({"built"})
               PROVE  Written(disk') \subseteq manifest' \cup lost
    OBVIOUS
  <2>1. pc # "idle" /\ pc' = "idle" /\ result' = "built"
    BY DEF Ends
  <2>2. Save
    <3>1. ~User
      BY <2>1 DEF User, EditSchema, EditConfig, Upgrade, EditOutput, MayAct
    <3>2. ~Tick /\ ~Start
      BY <2>1 DEF Tick, Start
    <3>3. ~WriteFails /\ ~Crash /\ ~Compile /\ ~TryCached /\ ~WriteManifest
      BY <2>1 DEF WriteFails, Crash, Compile, TryCached, WriteManifest, End, To
    <3>4. ~Fingerprint /\ ~Plan /\ \A f \in File : ~Write(f) /\ ~RemoveStale(f)
      BY <2>1 DEF Fingerprint, Plan, Write, RemoveStale, To
    <3> QED
      BY <3>1, <3>2, <3>3, <3>4 DEF Next, Work
  <2> QED
    BY <2>2 DEF Save, OwnedInv, Written
<1> QED
  BY <1>1, <1>2, InitBuildOK, NextBuildOK, NextOwnedInv, PTL DEF Spec, ManifestComplete

-----------------------------------------------------------------------------
(* What is recorded is what is there.                                      *)

\* Nothing is none of the records that are kept: no file, fingerprint or entry.
NothingIsApart ==
  \A r : DOMAIN r \in {{"data", "mtime"}, {"schema", "config"},
                       {"sum", "tool", "config", "savedAt", "set", "groups", "outs"}}
           => r # Nothing

Now == [schema |-> schema, config |-> config]

\* The entry is about one project, and a recorded file that is there says what
\* is recorded, unless it was written no earlier than the entry.
EntryFits ==
  entry # Nothing =>
    /\ entry.config = entry.sum.config
    /\ DOMAIN entry.outs = Expected(entry.sum.schema)
    /\ entry.set = Present(entry.sum.schema)
    /\ entry.groups = [g \in Present(entry.sum.schema) |-> GroupSum(g, entry.sum.schema)]
    /\ \A f \in DOMAIN entry.outs : disk[f] # Nothing =>
         disk[f].mtime >= entry.savedAt \/ disk[f].data = entry.outs[f].data

\* What the build has written or kept, as recordOutput and planIncremental
\* have noted it.
NotedOK ==
  /\ b.todo \cup DOMAIN b.digests = Expected(schema)
  /\ \A f \in DOMAIN b.digests : disk[f] # Nothing /\ disk[f].data = b.digests[f]

\* A build that nobody disturbs knows the project as it is.
BuildFits ==
  /\ pc # "idle" => /\ b.cfg = config
                    /\ b.sum # Nothing => b.sum = Now
                    /\ b.prev # Nothing => SameExecutable(entry)
  /\ pc \in {"fingerprint", "try", "compile"} => b.read = Nothing
  /\ pc = "try" => b.sum = Now
  /\ pc \in {"plan", "write", "save"} => b.read = schema
  /\ pc \in {"write", "save"} => NotedOK
  /\ pc = "save" => b.todo = {}

\* A file put now is no older than the entry.
LEMMA PutKeepsEntryFits ==
  ASSUME BuildOK, EntryFits, UNCHANGED <<entry, now>>, NEW f \in File, NEW x,
         x = Nothing \/ x.mtime = now, disk' = [disk EXCEPT ![f] = x]
  PROVE  EntryFits'
<1> SUFFICES ASSUME entry # Nothing, NEW k \in DOMAIN entry.outs, disk'[k] # Nothing
             PROVE  disk'[k].mtime >= entry.savedAt \/ disk'[k].data = entry.outs[k].data
  BY DEF EntryFits, Expected, Present, GroupSum
<1>1. k \in File /\ entry.savedAt \in 0..now /\ now \in Nat
  BY DEF BuildOK, EntryOK
<1>2. CASE k = f
  BY <1>1, <1>2 DEF BuildOK, DiskOK
<1>3. CASE k # f
  BY <1>1, <1>3 DEF BuildOK, DiskOK, EntryFits
<1> QED
  BY <1>2, <1>3

\* The entry fits while it and the tree stay.
LEMMA SameEntryFits == ASSUME EntryFits, UNCHANGED <<disk, entry>> PROVE EntryFits'
  BY DEF EntryFits, Expected, Present, GroupSum

\* A recorded file that passes for unchanged says what is recorded.
LEMMA UnchangedSays ==
  ASSUME BuildOK, EntryFits, entry # Nothing, NEW f \in DOMAIN entry.outs, Unchanged(f, entry)
  PROVE  disk[f] # Nothing /\ disk[f].data = entry.outs[f].data
<1>1. /\ f \in File /\ entry.savedAt \in 0..now /\ now \in Nat /\ Racy \in Nat
      /\ disk[f] # Nothing /\ disk[f].mtime \in 0..now
  BY BuildAssumption DEF BuildOK, EntryOK, DiskOK, Unchanged
<1>2. CASE disk[f].data = entry.outs[f].data
  BY <1>1, <1>2
<1>3. CASE entry.savedAt - disk[f].mtime > Racy
  BY <1>1, <1>3 DEF EntryFits
<1> QED
  BY <1>1, <1>2, <1>3 DEF Unchanged

\* What an undisturbed build compiles is the project.
LEMMA FindsSchema ==
  ASSUME BuildOK, BuildFits, pc = "compile" PROVE Found = schema
<1>1. Known = Present(schema)
  BY DEF BuildFits, Known, Recording, Now
<1> QED
  BY <1>1 DEF Found, Present, BuildOK

\* Idle, a build has nothing to know.
LEMMA IdleFits == ASSUME pc' = "idle" PROVE BuildFits'
  BY DEF BuildFits

\* The user leaves a build alone, which then has nothing to know.
LEMMA UserFits == ASSUME ~Meanwhile, User PROVE BuildFits'
  BY IdleFits DEF User, EditSchema, EditConfig, Upgrade, EditOutput, MayAct

\* The plan keeps what is as it was recorded, and leaves the rest to write.
LEMMA PlanNotes ==
  ASSUME NothingIsApart, BuildOK, EntryFits, BuildFits, Plan
  PROVE  NotedOK'
<1> DEFINE clean == {g \in Present(b.read) : Recording /\ b.prev # Nothing /\ KeepsGroup(g, b.prev)}
           digests == IF clean = {} THEN <<>> ELSE Kept(clean)
<1>1. /\ b' = [b EXCEPT !.todo = Expected(b.read) \ clean, !.digests = digests]
      /\ UNCHANGED <<schema, disk>> /\ b.read = schema
  BY DEF Plan, To, userVars, keptVars, BuildFits
<1>2. b'.todo = Expected(schema) \ clean /\ b'.digests = digests
  BY <1>1 DEF BuildOK, LocalsOK
<1>3. clean \subseteq Expected(schema) /\ Expected(schema') = Expected(schema)
  BY <1>1 DEF Expected
<1>4. CASE clean = {}
  <2>1. DOMAIN digests = {}
    BY <1>4
  <2> QED
    BY <1>1, <1>2, <1>3, <1>4, <2>1 DEF NotedOK
<1>5. CASE clean # {}
  <2>1. entry # Nothing /\ b.prev = entry /\ entry.set = Present(schema)
    BY <1>1, <1>5 DEF BuildOK, LocalsOK, KeepsGroup
  <2>2. Present(schema) \subseteq DOMAIN entry.outs
    BY <2>1 DEF EntryFits, Expected
  <2>3. clean \subseteq DOMAIN entry.outs
    BY <1>1, <2>2
  <2>4. digests = [f \in clean |-> entry.outs[f].data]
    BY <1>5, <2>1, <2>3 DEF Kept
  <2>5. ASSUME NEW f \in clean
        PROVE  disk[f] # Nothing /\ disk[f].data = entry.outs[f].data
    <3>1. Unchanged(f, entry)
      BY <2>1, <2>3 DEF KeepsGroup
    <3> QED
      BY <2>1, <2>3, <3>1, UnchangedSays
  <2> HIDE DEF digests, clean
  <2> QED
    BY <1>1, <1>2, <1>3, <2>4, <2>5 DEF NotedOK
<1> QED
  BY <1>4, <1>5

\* A file written is noted, and the others stay noted.
LEMMA WriteNotes ==
  ASSUME NothingIsApart, BuildOK, BuildFits, NEW f \in File, Write(f)
  PROVE  NotedOK'
<1> DEFINE data == Gen(f, b.read, b.cfg, tool)
<1>1. /\ b' = [b EXCEPT !.todo = @ \ {f}, !.digests = Recorded(@, f, data)]
      /\ UNCHANGED schema /\ f \in b.todo /\ NotedOK
  BY DEF Write, To, userVars, BuildFits
<1>2. b'.todo = b.todo \ {f} /\ b'.digests = Recorded(b.digests, f, data)
  BY <1>1 DEF BuildOK, LocalsOK
<1>3. /\ DOMAIN b'.digests = DOMAIN b.digests \cup {f} /\ b'.digests[f] = data
      /\ \A k \in DOMAIN b.digests : b'.digests[k] = b.digests[k]
  BY <1>1, <1>2 DEF Recorded, BuildOK, LocalsOK
<1>4. disk'[f] # Nothing /\ disk'[f].data = data /\ \A k \in File \ {f} : disk'[k] = disk[k]
  <2>1. CASE disk' = disk /\ disk[f] # Nothing /\ disk[f].data = data
    BY <2>1
  <2>2. CASE disk' = [disk EXCEPT ![f] = [data |-> data, mtime |-> now]]
    <3>1. disk'[f] = [data |-> data, mtime |-> now] /\ \A k \in File \ {f} : disk'[k] = disk[k]
      BY <2>2 DEF BuildOK, DiskOK
    <3>2. DOMAIN [data |-> data, mtime |-> now] = {"data", "mtime"}
      OBVIOUS
    <3>3. [data |-> data, mtime |-> now] # Nothing
      BY <3>2 DEF NothingIsApart
    <3> QED
      BY <3>1, <3>3
  <2> QED
    BY <2>1, <2>2 DEF Write
<1>5. \A k \in DOMAIN b.digests : k \in File \ {f}
  BY <1>1 DEF BuildOK, LocalsOK
<1>6. Expected(schema') = Expected(schema)
  BY <1>1
<1> HIDE DEF data
<1> QED
  BY <1>1, <1>2, <1>3, <1>4, <1>5, <1>6 DEF NotedOK

\* An undisturbed build knows the project at every step.
LEMMA NextBuildFits ==
  ASSUME NothingIsApart, ~Meanwhile
  PROVE  BuildOK /\ EntryFits /\ BuildFits /\ [Next]_vars => BuildFits'
<1> SUFFICES ASSUME BuildOK, EntryFits, BuildFits, [Next]_vars PROVE BuildFits'
  OBVIOUS
<1>1. CASE User
  BY <1>1, UserFits
<1>2. CASE Tick \/ UNCHANGED vars
  <2>1. UNCHANGED <<schema, config, tool, disk, entry, pc, b>>
    BY <1>2 DEF Tick, vars, userVars, keptVars
  <2> QED
    BY <2>1 DEF BuildFits, NotedOK, Now, SameExecutable, Expected, Present
<1>3. CASE Start
  BY <1>3 DEF Start, Locals, BuildFits, userVars
<1>4. CASE Fingerprint
  <2>1. /\ UNCHANGED <<schema, config, tool, entry>> /\ pc = "fingerprint"
        /\ \/ pc' = "try" /\ b' = [b EXCEPT !.sum = Now]
           \/ pc' = "compile" /\ b' = b
    BY <1>4 DEF Fingerprint, To, userVars, keptVars, Now
  <2>2. /\ b'.cfg = b.cfg /\ b'.prev = b.prev /\ b'.read = b.read
        /\ b'.sum = Now \/ (pc' = "compile" /\ b'.sum = b.sum)
    <3>1. CASE b' = [b EXCEPT !.sum = Now]
      BY <3>1 DEF BuildOK, LocalsOK
    <3>2. CASE pc' = "compile" /\ b' = b
      BY <3>2
    <3> QED
      BY <2>1, <3>1, <3>2
  <2>3. Now' = Now /\ SameExecutable(entry)' = SameExecutable(entry)
    BY <2>1 DEF Now, SameExecutable
  <2>4. /\ b'.cfg = config' /\ b'.read = Nothing
        /\ b'.sum # Nothing => b'.sum = Now'
        /\ b'.prev # Nothing => SameExecutable(entry)'
    BY <2>1, <2>2, <2>3 DEF BuildFits
  <2>5. pc' = "try" => b'.sum = Now'
    BY <2>1, <2>2, <2>3
  <2> QED
    BY <2>1, <2>4, <2>5 DEF BuildFits
<1>5. CASE TryCached
  <2>1. CASE End("cached")
    BY <2>1, IdleFits DEF End
  <2>2. ASSUME NEW p, p = (IF SameExecutable(entry) THEN entry ELSE Nothing),
               To("compile", [b EXCEPT !.prev = p])
        PROVE  BuildFits'
    <3>1. /\ b'.cfg = b.cfg /\ b'.sum = b.sum /\ b'.read = b.read /\ b'.prev = p
          /\ pc' = "compile" /\ pc = "try" /\ UNCHANGED <<schema, config, tool, entry>>
      BY <1>5, <2>2 DEF TryCached, To, userVars, keptVars, BuildOK, LocalsOK
    <3> QED
      BY <2>2, <3>1 DEF BuildFits, Now, SameExecutable
  <2> QED
    BY <1>5, <2>1, <2>2 DEF TryCached
<1>6. CASE Compile
  <2>1. CASE End("failed")
    BY <2>1, IdleFits DEF End
  <2>2. CASE To("plan", [b EXCEPT !.read = Found])
    <3>1. pc = "compile" /\ UNCHANGED <<schema, config, tool, entry>> /\ pc' = "plan"
      BY <1>6, <2>2 DEF Compile, To, userVars, keptVars
    <3>2. b'.cfg = b.cfg /\ b'.sum = b.sum /\ b'.read = schema /\ b'.prev = b.prev
      BY <2>2, <3>1, FindsSchema DEF To, BuildOK, LocalsOK
    <3> QED
      BY <3>1, <3>2 DEF BuildFits, Now, SameExecutable
  <2> QED
    BY <1>6, <2>1, <2>2 DEF Compile
<1>7. CASE Plan
  <2>1. PICK todo, digests : To("write", [b EXCEPT !.todo = todo, !.digests = digests])
    BY <1>7 DEF Plan
  <2>2. /\ pc = "plan" /\ UNCHANGED <<schema, config, tool, entry>> /\ pc' = "write"
        /\ b'.cfg = b.cfg /\ b'.sum = b.sum /\ b'.read = b.read /\ b'.prev = b.prev
    BY <1>7, <2>1 DEF Plan, To, userVars, keptVars, BuildOK, LocalsOK
  <2> QED
    BY <1>7, <2>2, PlanNotes DEF BuildFits, Now, SameExecutable
<1>8. ASSUME NEW f \in File, Write(f) PROVE BuildFits'
  <2>1. /\ pc = "write" /\ UNCHANGED <<schema, config, tool, entry>> /\ pc' = "write"
        /\ b'.cfg = b.cfg /\ b'.sum = b.sum /\ b'.read = b.read /\ b'.prev = b.prev
    BY <1>8 DEF Write, To, userVars, BuildOK, LocalsOK
  <2> QED
    BY <1>8, <2>1, WriteNotes DEF BuildFits, Now, SameExecutable
<1>9. ASSUME NEW f \in File, RemoveStale(f) PROVE BuildFits'
  <2>1. /\ pc = "write" /\ pc' = "write" /\ UNCHANGED <<schema, config, tool, entry, b>>
        /\ disk' = [disk EXCEPT ![f] = Nothing] /\ f \notin Expected(b.read)
    BY <1>9 DEF RemoveStale, Stale, To, userVars
  <2>2. NotedOK /\ b.read = schema
    BY <2>1 DEF BuildFits
  <2>3. Expected(schema') = Expected(schema)
    BY <2>1
  <2>4. \A k \in DOMAIN b.digests : disk'[k] = disk[k]
    BY <2>1, <2>2 DEF NotedOK, BuildOK, DiskOK, LocalsOK
  <2>5. NotedOK'
    BY <2>1, <2>2, <2>3, <2>4 DEF NotedOK
  <2> QED
    BY <2>1, <2>5 DEF BuildFits, Now, SameExecutable
<1>10. CASE WriteManifest
  <2>1. CASE End("failed")
    BY <2>1, IdleFits DEF End
  <2>2. CASE To("save", b)
    <3>1. /\ pc = "write" /\ pc' = "save" /\ b.todo = {} /\ UNCHANGED <<disk, b, entry>>
          /\ UNCHANGED <<schema, config, tool>>
      BY <1>10, <2>2 DEF WriteManifest, To, userVars
    <3>2. NotedOK /\ Expected(schema') = Expected(schema)
      BY <3>1 DEF BuildFits
    <3>3. NotedOK'
      BY <3>1, <3>2 DEF NotedOK
    <3> QED
      BY <3>1, <3>3 DEF BuildFits, Now, SameExecutable
  <2> QED
    BY <1>10, <2>1, <2>2 DEF WriteManifest
<1>11. CASE Save \/ WriteFails \/ Crash
  BY <1>11, IdleFits DEF Save, WriteFails, Crash, End
<1> QED
  BY <1>1, <1>2, <1>3, <1>4, <1>5, <1>6, <1>7, <1>8, <1>9, <1>10, <1>11 DEF Next, Work

\* What a step does to the tree: nothing, or one file that is removed or put.
LEMMA StepsDisk ==
  ASSUME BuildOK, [Next]_vars
  PROVE  \/ UNCHANGED disk
         \/ /\ UNCHANGED <<entry, now>>
            /\ \E f \in File : \E x :
                 disk' = [disk EXCEPT ![f] = x] /\ (x = Nothing \/ x.mtime = now)
<1> DEFINE Puts == /\ UNCHANGED <<entry, now>>
                   /\ \E f \in File : \E x :
                        disk' = [disk EXCEPT ![f] = x] /\ (x = Nothing \/ x.mtime = now)
           Goal == UNCHANGED disk \/ Puts
<1>1. ASSUME NEW f \in File, EditOutput(f) PROVE Puts
  BY <1>1 DEF EditOutput, MayAct
<1>2. ASSUME NEW f \in File, Write(f) PROVE Goal
  <2>1. UNCHANGED <<entry, now>>
    BY <1>2 DEF Write, To
  <2>2. CASE disk' = [disk EXCEPT ![f] = [data |-> Gen(f, b.read, b.cfg, tool), mtime |-> now]]
    <3>1. [data |-> Gen(f, b.read, b.cfg, tool), mtime |-> now].mtime = now
      OBVIOUS
    <3> QED
      BY <2>1, <2>2, <3>1
  <2> QED
    BY <1>2, <2>2 DEF Write
<1>3. ASSUME NEW f \in File, RemoveStale(f) PROVE Puts
  BY <1>3 DEF RemoveStale, To
<1>4. CASE Crash
  <2>1. UNCHANGED <<entry, now>>
    BY <1>4 DEF Crash, End
  <2>2. ASSUME NEW f \in b.todo, disk' = [disk EXCEPT ![f] = [data |-> Torn, mtime |-> now]]
        PROVE  Puts
    <3>1. f \in File /\ [data |-> Torn, mtime |-> now].mtime = now
      BY DEF BuildOK, LocalsOK
    <3> QED
      BY <2>1, <2>2, <3>1
  <2> QED
    BY <1>4, <2>2 DEF Crash
<1>5. CASE \/ Tick \/ Start \/ Fingerprint \/ TryCached \/ Compile \/ Plan \/ WriteManifest
           \/ Save \/ WriteFails \/ UNCHANGED vars
  BY <1>5 DEF Tick, Start, Fingerprint, TryCached, Compile, Plan, WriteManifest, Save,
     WriteFails, vars, keptVars
<1>6. CASE User /\ ~\E f \in File : EditOutput(f)
  BY <1>6 DEF User, EditSchema, EditConfig, Upgrade
<1> QED
  BY <1>1, <1>2, <1>3, <1>4, <1>5, <1>6 DEF Next, User, Work

\* Only Save replaces the entry.
LEMMA StepsEntry == ASSUME [Next]_vars PROVE UNCHANGED entry \/ Save
<1>1. User => UNCHANGED entry
  BY DEF User, EditSchema, EditConfig, Upgrade, EditOutput, MayAct
<1>2. Work => UNCHANGED entry \/ Save
  BY DEF Work, Fingerprint, TryCached, Compile, Plan, Write, RemoveStale, WriteManifest, keptVars
<1>3. Tick \/ Start \/ WriteFails \/ Crash \/ UNCHANGED vars => UNCHANGED entry
  BY DEF Tick, Start, WriteFails, Crash, vars, keptVars
<1> QED
  BY <1>1, <1>2, <1>3 DEF Next

\* What Save records of an undisturbed build is the project and the tree.
LEMMA SaveRecords ==
  ASSUME BuildOK, BuildFits, Save, ~UNCHANGED entry
  PROVE  /\ Recording /\ UNCHANGED <<disk, now, schema, config, tool>> /\ NotedOK
         /\ DOMAIN b.digests = Expected(schema)
         /\ entry' = [sum |-> Now, tool |-> tool, config |-> config, savedAt |-> now,
                      set |-> Present(schema),
                      groups |-> [g \in Present(schema) |-> GroupSum(g, schema)],
                      outs |-> [f \in Expected(schema) |->
                                  [data |-> b.digests[f], mtime |-> disk[f].mtime]]]
<1>1. Recording /\ UNCHANGED <<disk, now, schema, config, tool>>
  BY DEF Save, End, userVars
<1>2. b.sum = Now /\ b.read = schema /\ b.todo = {} /\ NotedOK
  BY <1>1 DEF Save, BuildFits, Recording
<1>3. DOMAIN b.digests = Expected(schema)
  BY <1>2 DEF NotedOK
<1>4. entry' = [sum |-> b.sum, tool |-> tool, config |-> b.sum.config,
                savedAt |-> now, set |-> Present(b.read),
                groups |-> [g \in Present(b.read) |-> GroupSum(g, b.sum.schema)],
                outs |-> [f \in DOMAIN b.digests |->
                            [data |-> b.digests[f], mtime |-> disk[f].mtime]]]
  BY DEF Save
<1>5. b.sum.config = config /\ b.sum.schema = schema
  BY <1>2 DEF Now
<1> QED
  BY <1>1, <1>2, <1>3, <1>4, <1>5

\* The entry fits the tree after every step, Save included.
LEMMA NextEntryFits ==
  BuildOK /\ EntryFits /\ BuildFits /\ [Next]_vars => EntryFits'
<1> SUFFICES ASSUME BuildOK, EntryFits, BuildFits, [Next]_vars PROVE EntryFits'
  OBVIOUS
<1>1. CASE UNCHANGED entry
  BY <1>1, StepsDisk, SameEntryFits, PutKeepsEntryFits
<1>2. CASE Save /\ ~UNCHANGED entry
  <2>1. /\ entry'.sum = Now /\ entry'.config = config /\ entry'.set = Present(schema)
        /\ entry'.groups = [g \in Present(schema) |-> GroupSum(g, schema)]
        /\ entry'.outs = [f \in Expected(schema) |->
                            [data |-> b.digests[f], mtime |-> disk[f].mtime]]
    BY <1>2, SaveRecords
  <2>2. entry'.sum.schema = schema /\ entry'.sum.config = config
    BY <2>1 DEF Now
  <2>3. ASSUME NEW f \in Expected(schema)
        PROVE  disk'[f].data = entry'.outs[f].data
    BY <1>2, <2>1, SaveRecords DEF NotedOK
  <2> QED
    BY <2>1, <2>2, <2>3 DEF EntryFits
<1> QED
  BY <1>1, <1>2, StepsEntry

\* No entry and no build is there at first.
LEMMA InitFits == Init => EntryFits /\ BuildFits
  BY DEF Init, EntryFits, BuildFits

-----------------------------------------------------------------------------
(* A project nobody touched is not built again.                            *)

\* Since a build ended well and nobody has touched anything, the entry is of
\* the project as it is.
SettledInv ==
  settled /\ pc \in {"idle", "fingerprint", "try"} =>
    SameExecutable(entry) /\ entry.sum = Now /\ OutputsUnchanged(entry)

\* Save records what is there; until somebody touches it, it stays so.
LEMMA NextSettledInv ==
  ASSUME NothingIsApart
  PROVE  BuildOK /\ BuildFits /\ SettledInv /\ [Next]_vars => SettledInv'
<1> SUFFICES ASSUME BuildOK, BuildFits, SettledInv, [Next]_vars,
                    settled', pc' \in {"idle", "fingerprint", "try"}
             PROVE  SameExecutable(entry)' /\ entry'.sum = Now' /\ OutputsUnchanged(entry)'
  BY DEF SettledInv
<1>1. CASE /\ settled /\ pc \in {"idle", "fingerprint", "try"}
           /\ UNCHANGED <<schema, config, tool, disk, entry>>
  BY <1>1 DEF SettledInv, SameExecutable, Now, OutputsUnchanged, Unchanged
<1>2. CASE Save
  <2>1. /\ Recording /\ UNCHANGED <<disk, now, schema, config, tool>>
        /\ b.todo = {} /\ NotedOK
    BY <1>2 DEF Save, End, userVars, BuildFits
  <2>2. DOMAIN b.digests = Expected(schema) /\ \A f \in DOMAIN b.digests : disk[f] # Nothing
    BY <2>1 DEF NotedOK
  <2>3. /\ b.sum = Now
        /\ entry' = [sum |-> b.sum, tool |-> tool, config |-> b.sum.config,
                     savedAt |-> now, set |-> Present(b.read),
                     groups |-> [g \in Present(b.read) |-> GroupSum(g, b.sum.schema)],
                     outs |-> [f \in DOMAIN b.digests |->
                                 [data |-> b.digests[f], mtime |-> disk[f].mtime]]]
    BY <1>2, <2>1, <2>2 DEF Save, BuildFits, Recording
  <2>4. /\ entry'.sum = Now /\ entry'.tool = tool
        /\ DOMAIN entry' = {"sum", "tool", "config", "savedAt", "set", "groups", "outs"}
        /\ entry'.outs = [f \in Expected(schema) |->
                            [data |-> b.digests[f], mtime |-> disk[f].mtime]]
    BY <2>2, <2>3
  <2>5. entry' # Nothing
    BY <2>4 DEF NothingIsApart
  <2>6. \A f \in Expected(schema) : Unchanged(f, entry)'
    BY <2>1, <2>2, <2>4 DEF Unchanged, NotedOK
  <2>7. OutputsUnchanged(entry)'
    <3>1. DOMAIN entry'.outs = Expected(schema) /\ Expected(schema) # {}
      BY <2>4, ExpectedFiles
    <3> QED
      BY <2>6, <3>1 DEF OutputsUnchanged
  <2>8. Now' = Now
    BY <2>1 DEF Now
  <2> QED
    BY <2>1, <2>4, <2>5, <2>7, <2>8 DEF SameExecutable
<1>3. CASE User
  BY <1>3 DEF User, EditSchema, EditConfig, Upgrade, EditOutput, MayAct
<1>4. CASE Tick \/ Start \/ Fingerprint \/ TryCached \/ UNCHANGED vars
  BY <1>1, <1>4 DEF Tick, Start, Fingerprint, TryCached, To, End, vars, userVars, keptVars
<1>5. CASE Compile \/ Plan \/ WriteManifest \/ WriteFails \/ Crash
  BY <1>5 DEF Compile, Plan, WriteManifest, WriteFails, Crash, To
<1>6. ASSUME NEW f \in File, Write(f) \/ RemoveStale(f) PROVE FALSE
  BY <1>6 DEF Write, RemoveStale, To
<1> QED
  BY <1>2, <1>3, <1>4, <1>5, <1>6 DEF Next, Work

\* A build of a project nobody has touched since a build ended well is skipped,
\* unless somebody works while builds run: the entry accepts what it was saved
\* with, files it kept from the entry before included (tryCachedBuild).
THEOREM UnchangedIsSkippedAlways ==
  ASSUME NothingIsApart, ~Meanwhile PROVE Spec => UnchangedIsSkipped
<1>1. Init => SettledInv
  BY DEF Init, SettledInv
<1>2. BuildFits /\ SettledInv /\ [Next]_vars => [pc = "try" /\ settled => pc' # "compile"]_vars
  <2> SUFFICES ASSUME BuildFits, SettledInv, Next, pc = "try", settled, pc' = "compile"
               PROVE  FALSE
    OBVIOUS
  <2>1. TryCached
    <3>1. ~User /\ ~Tick /\ ~Start /\ ~WriteFails /\ ~Crash
      BY DEF User, EditSchema, EditConfig, Upgrade, EditOutput, MayAct, Tick, Start,
         WriteFails, Crash, End
    <3>2. ~Fingerprint /\ ~Compile /\ ~Plan /\ ~WriteManifest /\ ~Save
      BY DEF Fingerprint, Compile, Plan, WriteManifest, Save
    <3>3. \A f \in File : ~Write(f) /\ ~RemoveStale(f)
      BY DEF Write, RemoveStale
    <3> QED
      BY <3>1, <3>2, <3>3 DEF Next, Work
  <2>2. SameExecutable(entry) /\ entry.sum = b.sum /\ OutputsUnchanged(entry)
    BY DEF SettledInv, BuildFits
  <2> QED
    BY <2>1, <2>2 DEF TryCached, End
<1> QED
  BY <1>1, <1>2, InitBuildOK, NextBuildOK, InitFits, NextEntryFits, NextBuildFits,
     NextSettledInv, PTL DEF Spec, UnchangedIsSkipped

-----------------------------------------------------------------------------
(* An incremental build is a full build.                                   *)

\* What the entry records, and what the build has noted, is what the generators
\* write for the schemas, config and binary they are recorded with.
ExactInv ==
  /\ entry # Nothing =>
       \A f \in DOMAIN entry.outs :
         entry.outs[f].data = Gen(f, entry.sum.schema, entry.sum.config, entry.tool)
  /\ pc \in {"write", "save"} =>
       \A f \in DOMAIN b.digests : b.digests[f] = Gen(f, schema, config, tool)

\* The references found are all that a directory's output depends on.
AllReferencesFound == \A g \in Group : Refs[g] = Reads[g]

\* What the plan keeps is what the generators would write now.
LEMMA PlanKeepsExact ==
  ASSUME AllReferencesFound, BuildOK, EntryFits, BuildFits, ExactInv, Plan
  PROVE  \A f \in DOMAIN b'.digests : b'.digests[f] = Gen(f, schema, config, tool)
<1> DEFINE clean == {g \in Present(b.read) : Recording /\ b.prev # Nothing /\ KeepsGroup(g, b.prev)}
           digests == IF clean = {} THEN <<>> ELSE Kept(clean)
<1>1. b.read = schema /\ b'.digests = digests
  BY DEF Plan, To, BuildFits, BuildOK, LocalsOK
<1>2. CASE clean = {}
  BY <1>1, <1>2
<1>3. CASE clean # {}
  <2>1. /\ entry # Nothing /\ b.prev = entry /\ SameExecutable(entry)
        /\ b.sum = Now /\ Recording
    BY <1>1, <1>3 DEF BuildOK, LocalsOK, BuildFits, Plan, Recording
  <2>2. DOMAIN digests \subseteq clean /\ DOMAIN digests \subseteq DOMAIN entry.outs
    BY <1>3, <2>1 DEF Kept
  <2>3. \A f \in DOMAIN digests : digests[f] = entry.outs[f].data
    BY <1>3, <2>1 DEF Kept
  <2>4. ASSUME NEW g \in clean, g \in DOMAIN entry.outs
        PROVE  entry.outs[g].data = Gen(g, schema, config, tool)
    <3>1. /\ entry.config = config /\ entry.set = Present(schema) /\ g \in Present(schema)
          /\ entry.groups[g] = GroupSum(g, schema)
      BY <1>1, <2>1 DEF KeepsGroup, Now
    <3>2. GroupSum(g, entry.sum.schema) = GroupSum(g, schema) /\ entry.sum.config = config
      BY <2>1, <3>1 DEF EntryFits
    <3>3. Restrict(entry.sum.schema, Refs[g]) = Restrict(schema, Refs[g])
      BY <3>2 DEF GroupSum
    <3>4. g \in Group /\ g # Whole
      BY BuildAssumption DEF Present
    <3>5. Gen(g, entry.sum.schema, entry.sum.config, entry.tool) = Gen(g, schema, config, tool)
      BY <2>1, <3>2, <3>3, <3>4 DEF Gen, AllReferencesFound, SameExecutable
    <3> QED
      BY <2>1, <2>4, <3>5 DEF ExactInv
  <2> HIDE DEF digests, clean
  <2> QED
    BY <1>1, <2>2, <2>3, <2>4
<1> QED
  BY <1>2, <1>3

\* Files written are exact because the build knows the project, files kept
\* because nothing they were generated from has changed.
LEMMA NextExactInv ==
  ASSUME AllReferencesFound, ~Meanwhile
  PROVE  BuildOK /\ EntryFits /\ BuildFits /\ ExactInv /\ [Next]_vars => ExactInv'
<1> SUFFICES ASSUME BuildOK, EntryFits, BuildFits, ExactInv, [Next]_vars
             PROVE  ExactInv'
  OBVIOUS
<1> DEFINE Recorded1 == entry # Nothing =>
             \A f \in DOMAIN entry.outs :
               entry.outs[f].data = Gen(f, entry.sum.schema, entry.sum.config, entry.tool)
           Noted1 == pc \in {"write", "save"} =>
             \A f \in DOMAIN b.digests : b.digests[f] = Gen(f, schema, config, tool)
<1>1. Recorded1'
  <2>1. CASE UNCHANGED entry
    BY <2>1 DEF ExactInv, Gen
  <2>2. CASE Save /\ ~UNCHANGED entry
    <3>1. /\ entry'.sum = Now /\ entry'.tool = tool
          /\ entry'.outs = [f \in Expected(schema) |->
                              [data |-> b.digests[f], mtime |-> disk[f].mtime]]
          /\ DOMAIN b.digests = Expected(schema)
      BY <2>2, SaveRecords
    <3>2. \A f \in Expected(schema) : b.digests[f] = Gen(f, schema, config, tool)
      BY <2>2, <3>1 DEF Save, ExactInv
    <3> QED
      BY <3>1, <3>2 DEF Now, Gen
  <2> QED
    BY <2>1, <2>2, StepsEntry
<1>2. Noted1'
  <2>1. CASE User \/ Tick \/ UNCHANGED vars
    <3>1. CASE UNCHANGED <<schema, config, tool, pc, b>>
      BY <3>1 DEF ExactInv, Gen
    <3>2. CASE User /\ pc' = "idle"
      BY <3>2
    <3> QED
      <4>1. User => pc' = "idle"
        BY DEF User, EditSchema, EditConfig, Upgrade, EditOutput, MayAct
      <4> QED
        BY <2>1, <3>1, <3>2, <4>1 DEF Tick, vars, userVars
  <2>2. CASE Plan
    <3>1. UNCHANGED <<schema, config, tool>>
      BY <2>2 DEF Plan, To, userVars
    <3> QED
      BY <2>2, <3>1, PlanKeepsExact DEF Gen
  <2>3. ASSUME NEW f \in File, Write(f) PROVE Noted1'
    <3>1. /\ UNCHANGED <<schema, config, tool>> /\ pc = "write"
          /\ b'.digests = Recorded(b.digests, f, Gen(f, b.read, b.cfg, tool))
      BY <2>3 DEF Write, To, userVars, BuildOK, LocalsOK
    <3>2. b.read = schema /\ b.cfg = config
      BY <3>1 DEF BuildFits
    <3> QED
      BY <3>1, <3>2 DEF Recorded, ExactInv, Gen
  <2>4. ASSUME NEW f \in File, RemoveStale(f) PROVE Noted1'
    <3>1. pc = "write" /\ UNCHANGED <<schema, config, tool, b>>
      BY <2>4 DEF RemoveStale, To, userVars
    <3> QED
      BY <3>1 DEF ExactInv, Gen
  <2>5. CASE WriteManifest
    <3>1. pc = "write" /\ (pc' = "idle" \/ UNCHANGED <<schema, config, tool, b>>)
      BY <2>5 DEF WriteManifest, To, End, userVars
    <3> QED
      BY <3>1 DEF ExactInv, Gen
  <2>6. CASE Start \/ Fingerprint \/ TryCached \/ Compile \/ Save \/ WriteFails \/ Crash
    BY <2>6 DEF Start, Fingerprint, TryCached, Compile, Save, WriteFails, Crash, To, End
  <2> QED
    BY <2>1, <2>2, <2>3, <2>4, <2>5, <2>6 DEF Next, Work
<1> QED
  BY <1>1, <1>2 DEF ExactInv

\* Whatever a user did between builds, and whatever failed or was killed, a
\* build that ends well, by skipping, keeping or writing, leaves what a full
\* build of the project would, for any project whose references are all found
\* (tryCachedBuild, planIncremental).
THEOREM MatchesFullBuildAlways ==
  ASSUME NothingIsApart, AllReferencesFound, ~Meanwhile PROVE Spec => MatchesFullBuild
<1>1. Init => ExactInv
  BY DEF Init, ExactInv
<1>2. BuildOK /\ EntryFits /\ BuildFits /\ ExactInv /\ [Next]_vars
        => [Ends({"built", "cached"}) => AllExact']_vars
  <2> SUFFICES ASSUME BuildOK, EntryFits, BuildFits, ExactInv, Next, Ends({"built", "cached"})
               PROVE  AllExact'
    OBVIOUS
  <2>1. pc # "idle" /\ pc' = "idle" /\ result' \in {"built", "cached"}
    BY DEF Ends
  <2>2. Save \/ TryCached
    <3>1. ~User
      BY <2>1 DEF User, EditSchema, EditConfig, Upgrade, EditOutput, MayAct
    <3>2. ~Tick /\ ~Start
      BY <2>1 DEF Tick, Start
    <3>3. ~WriteFails /\ ~Crash /\ ~Compile /\ ~WriteManifest
      BY <2>1 DEF WriteFails, Crash, Compile, WriteManifest, End, To
    <3>4. ~Fingerprint /\ ~Plan /\ \A f \in File : ~Write(f) /\ ~RemoveStale(f)
      BY <2>1 DEF Fingerprint, Plan, Write, RemoveStale, To
    <3> QED
      BY <3>1, <3>2, <3>3, <3>4 DEF Next, Work
  <2>3. SUFFICES ASSUME UNCHANGED <<schema, config, tool, disk>>
                 PROVE  \A f \in Expected(schema) :
                          disk[f] # Nothing /\ disk[f].data = Gen(f, schema, config, tool)
    <3>1. UNCHANGED <<schema, config, tool, disk>>
      BY <2>1, <2>2 DEF Save, TryCached, End, To, userVars, keptVars
    <3> QED
      BY <2>3, <3>1 DEF AllExact, Exact, Gen, Expected, Present
  <2>4. CASE Save
    <3>1. pc = "save" /\ NotedOK /\ b.todo = {}
      BY <2>4 DEF Save, BuildFits
    <3>2. DOMAIN b.digests = Expected(schema)
      BY <3>1 DEF NotedOK
    <3> QED
      BY <3>1, <3>2 DEF NotedOK, ExactInv
  <2>5. CASE TryCached
    <3>1. entry # Nothing /\ entry.tool = tool /\ entry.sum = Now /\ OutputsUnchanged(entry)
      <4>1. SameExecutable(entry) /\ entry.sum = b.sum /\ OutputsUnchanged(entry) /\ pc = "try"
        BY <2>1, <2>5 DEF TryCached, To
      <4> QED
        BY <4>1 DEF SameExecutable, BuildFits
    <3>2. DOMAIN entry.outs = Expected(schema)
      BY <3>1 DEF EntryFits, Now
    <3>3. ASSUME NEW f \in Expected(schema)
          PROVE  disk[f] # Nothing /\ disk[f].data = entry.outs[f].data
      BY <3>1, <3>2, UnchangedSays DEF OutputsUnchanged
    <3>4. \A f \in Expected(schema) : entry.outs[f].data = Gen(f, schema, config, tool)
      BY <3>1, <3>2 DEF ExactInv, Now
    <3> QED
      BY <3>3, <3>4
  <2> QED
    BY <2>2, <2>4, <2>5
<1> QED
  BY <1>1, <1>2, InitBuildOK, NextBuildOK, InitFits, NextEntryFits, NextBuildFits,
     NextExactInv, PTL DEF Spec, MatchesFullBuild
=============================================================================
