----------------------------- MODULE FgaIntents -----------------------------
(***************************************************************************)
(* The register/unregister intents the service writes to registry_outbox   *)
(* (internal/domain/fga_intent.go) and the lists of intents the use cases  *)
(* hand to one writer transaction (createRepoIntents, renameIntents, ...). *)
(*                                                                         *)
(* An intent is one outbox row: one authorization object (a registry, a    *)
(* repository, or the public-read grant of a repository) that iam must     *)
(* learn about or forget.  The owner tuple travels in the same row as the  *)
(* project or parent tuple and is not told apart here.                     *)
(***************************************************************************)
EXTENDS Sequences

CONSTANTS
  RegId,      \* registry ids (ids.NewID, prefix "reg")
  RepoName,   \* repository names inside one registry
  Labels,     \* label maps of a registry, one value per distinct map
  NoRepo,     \* resource_id of a registry-level intent has no repository part
  NoLabels    \* an intent that carries no labels

ASSUME NoRepoAssumption == NoRepo \notin RepoName
ASSUME NoLabelsAssumption == NoLabels \notin Labels

Visibility == {"PRIVATE", "PUBLIC"}

Intent ==
  [event  : {"register", "unregister"},
   kind   : {"Registry", "Repository", "PublicGrant"},
   reg    : RegId,
   repo   : RepoName \union {NoRepo},
   labels : Labels \union {NoLabels}]

\* RegisterIntentForCreate and RegisterIntentForUpdate: the project tuple with
\* the labels the row has at commit, which feed the label-scoped access mirror.
RegisterRegistry(r, l) ==
  [event |-> "register", kind |-> "Registry", reg |-> r, repo |-> NoRepo, labels |-> l]

UnregisterIntentForDelete(r) ==
  [event |-> "unregister", kind |-> "Registry", reg |-> r, repo |-> NoRepo, labels |-> NoLabels]

RegisterIntentForRepoPush(r, n) ==
  [event |-> "register", kind |-> "Repository", reg |-> r, repo |-> n, labels |-> NoLabels]

UnregisterIntentForRepo(r, n) ==
  [event |-> "unregister", kind |-> "Repository", reg |-> r, repo |-> n, labels |-> NoLabels]

RegisterIntentForRepoPublicGrant(r, n) ==
  [event |-> "register", kind |-> "PublicGrant", reg |-> r, repo |-> n, labels |-> NoLabels]

UnregisterIntentForRepoPublicGrant(r, n) ==
  [event |-> "unregister", kind |-> "PublicGrant", reg |-> r, repo |-> n, labels |-> NoLabels]

-----------------------------------------------------------------------------
(* The intent lists of the overlay use cases, in emission order.           *)

\* The public grant is announced only when the resulting visibility is PUBLIC.
PublicGrantIf(r, n, v) ==
  IF v = "PUBLIC" THEN <<RegisterIntentForRepoPublicGrant(r, n)>> ELSE <<>>

\* Mutant: a repository created PUBLIC is granted instead of registered.
createRepoIntentsGrantInstead(r, n, v) ==
  IF v = "PUBLIC" THEN PublicGrantIf(r, n, v) ELSE <<RegisterIntentForRepoPush(r, n)>>

createRepoIntents(r, n, v) == <<RegisterIntentForRepoPush(r, n)>> \o PublicGrantIf(r, n, v)

\* Mutant: going PRIVATE does not revoke.
updateGovernanceIntentsNoRevoke(r, n, applyVisibility, v) ==
  IF applyVisibility THEN PublicGrantIf(r, n, v) ELSE <<>>

\* UpdateRepository on a durable repository: governance only for an explicit visibility.
updateGovernanceIntents(r, n, applyVisibility, v) ==
  CASE ~applyVisibility -> <<>>
    [] applyVisibility /\ v = "PUBLIC"  -> <<RegisterIntentForRepoPublicGrant(r, n)>>
    [] applyVisibility /\ v # "PUBLIC" -> <<UnregisterIntentForRepoPublicGrant(r, n)>>

renameIntents(r, old, new, v) ==
  << RegisterIntentForRepoPush(r, new),
     UnregisterIntentForRepo(r, old),
     UnregisterIntentForRepoPublicGrant(r, old) >> \o PublicGrantIf(r, new, v)

deleteRepoIntents(r, n) ==
  << UnregisterIntentForRepo(r, n), UnregisterIntentForRepoPublicGrant(r, n) >>
=============================================================================
