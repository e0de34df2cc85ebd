------------------------------ MODULE MCProjects ------------------------------
(***************************************************************************)
(* Projects for TLC: the episodes of a season, who sees a project and may  *)
(* claim in it, which files it takes, and its page in a browser: the       *)
(* sheets of tasks, the preview of files, the comparison of two versions.  *)
(* They share no state, so a behaviour plays one part: Init picks it, and  *)
(* only its operations move.                                               *)
(***************************************************************************)
EXTENDS Seasons, ProjectAccess, UploadPolicies, ProjectPage, LineDiff

VARIABLE part
vars == <<seasonVars, accessVars, policyVars, projectPageVars, diffVars, part>>

TagSets == {{}, {"g1", "g2"}}

\* A policy: what translators and supervisors may send, how it is written down,
\* the largest size and the list of extensions.
Only(extensions) == [extensions |-> extensions, mime |-> {}, types |-> {}]
Told(translation, supervisor, nested, maxSize, whitelist) ==
  [rules |-> [r \in TaskRole |-> IF r = "translation" THEN translation ELSE supervisor],
   nested |-> nested, maxSize |-> maxSize, whitelist |-> whitelist]
DefaultPolicy == Told(Only({"ass"}), Only({"ass", "mkv"}), TRUE, 2, {"ass", "mkv"})
Policies == {Told([Only({"mkv"}) EXCEPT !.mime = {"text"}], [Only({}) EXCEPT !.types = {"subtitle"}], TRUE, 1, {}),
             Told(NoRule, Only({"ass"}), TRUE, 2, {"mkv"}),
             Told(Only({"mkv"}), Only({"mkv"}), FALSE, 2, {})}
Contents == {[ext |-> "ass", size |-> 1], [ext |-> "mkv", size |-> 2]}
Uploaders == {[user |-> "admin", member |-> "supervisor"]}
FilesOf == [t \in FileType |-> IF t = "subtitle" THEN {"ass"} ELSE {"mkv"}]
TextFiles == [m \in Mime |-> {"ass", "xml"}]
TypesOfRoles == [r \in TaskRole |-> IF r = "translation" THEN {"subtitle"} ELSE FileType]

\* A unit with a task of timing and translations in order.
PageRoles == [t \in Task |-> IF t = 1 THEN "timing" ELSE "translation"]
PageOrders == [t \in Task |-> t - 1]
PageUnits == [t \in Task |-> "e1"]
PageWorkflow == <<"timing", "translation", "post_production">>

\* Of the two translations the first is done, undone or deleted, the second deleted.
OnlyFirstIsDone(now) == now.completed \cup now.files \subseteq {2}

Parts == {"season", "access", "policies", "sheets", "dialogs", "diffs"}

Init ==
  /\ SeasonInit /\ AccessInit /\ PoliciesInit /\ PageInit /\ DiffInit
  /\ part \in Parts
  \* Two translations, the second of which follows the first.
  /\ part = "sheets" => server.tasks = {2, 3} /\ OnlyFirstIsDone(server)
  /\ part # "access" => /\ tagRole = [g \in Tag |-> "none"]
                        /\ roles = [r \in Role |-> NoEntry]
  /\ part # "policies" => template = CHOOSE p \in Policy : TRUE
  /\ globalRow = NoPolicy
  /\ part # "sheets" => server = [tasks |-> {1, 2}, completed |-> {1, 2}, files |-> {1, 2}]

Next ==
  \/ /\ part = "season" /\ SeasonNext
     /\ UNCHANGED <<accessVars, policyVars, projectPageVars, diffVars, part>>
  \/ /\ part = "access" /\ AccessNext
     /\ UNCHANGED <<seasonVars, policyVars, projectPageVars, diffVars, part>>
  \/ /\ part = "policies" /\ PoliciesNext
     /\ UNCHANGED <<seasonVars, accessVars, projectPageVars, diffVars, part>>
  \/ /\ \/ part = "sheets" /\ SheetNext
        \/ part = "dialogs" /\ DialogNext
        \/ part \in {"sheets", "dialogs"} /\ LoadNext
     /\ part = "sheets" => OnlyFirstIsDone(server')
     /\ UNCHANGED <<seasonVars, accessVars, policyVars, diffVars, part>>
  \/ /\ part = "diffs" /\ DiffNext
     /\ UNCHANGED <<seasonVars, accessVars, policyVars, projectPageVars, part>>

Spec == Init /\ [][Next]_vars

TypeOK == SeasonTypeOK /\ AccessTypeOK /\ PoliciesTypeOK /\ PageTypeOK /\ DiffTypeOK
=============================================================================
