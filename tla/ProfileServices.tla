-------------------------- MODULE ProfileServices ---------------------------
(***************************************************************************)
(* What people manage of a profile: uploads, its files, its connectors and *)
(* their tokens, its jobs and the results of those, its artifacts, its     *)
(* cards.  The services are put side by side as in ConversationServices.   *)
(* Where the code of two meets in one file, the module that owns the file  *)
(* has the steps of both: config.yaml and .env of a profile in             *)
(* ProfileHome, the Foreign keys of .env in Connectors, the agent's own    *)
(* saves in Artifacts.                                                     *)
(***************************************************************************)
EXTENDS ConversationFiles, McpOAuth, Connectors, Artifacts, ProfileHome, CronJobs, CronResults, Cards

CONSTANT Services \* the services of this instance

VARIABLE chosen \* the service this behaviour is about

servicesVars == <<chosen, filesVars, oauthVars, connVars, artifactVars, homeVars, cronVars,
                  resultVars, cardVars>>

ServicesInit ==
  /\ chosen \in Services
  /\ FilesInit /\ OAuthInit /\ ConnInit /\ ArtifactsInit /\ HomeInit
  /\ CronInit /\ ResultsInit /\ CardsInit

ServicesNext ==
  \/ /\ chosen = "files" /\ FilesNext
     /\ UNCHANGED <<chosen, oauthVars, connVars, artifactVars, homeVars, cronVars, resultVars, cardVars>>
  \/ /\ chosen = "oauth" /\ OAuthNext
     /\ UNCHANGED <<chosen, filesVars, connVars, artifactVars, homeVars, cronVars, resultVars,
                    cardVars>>
  \/ /\ chosen = "connectors" /\ ConnNext
     /\ UNCHANGED <<chosen, filesVars, oauthVars, artifactVars, homeVars, cronVars, resultVars,
                    cardVars>>
  \/ /\ chosen = "artifacts" /\ ArtifactsNext
     /\ UNCHANGED <<chosen, filesVars, oauthVars, connVars, homeVars, cronVars, resultVars,
                    cardVars>>
  \/ /\ chosen = "home" /\ HomeNext
     /\ UNCHANGED <<chosen, filesVars, oauthVars, connVars, artifactVars, cronVars, resultVars,
                    cardVars>>
  \/ /\ chosen = "cron" /\ CronNext
     /\ UNCHANGED <<chosen, filesVars, oauthVars, connVars, artifactVars, homeVars, resultVars,
                    cardVars>>
  \/ /\ chosen = "results" /\ ResultsNext
     /\ UNCHANGED <<chosen, filesVars, oauthVars, connVars, artifactVars, homeVars, cronVars,
                    cardVars>>
  \/ /\ chosen = "cards" /\ CardsNext
     /\ UNCHANGED <<chosen, filesVars, oauthVars, connVars, artifactVars, homeVars, cronVars,
                    resultVars>>

ServicesSpec == ServicesInit /\ [][ServicesNext]_servicesVars

-----------------------------------------------------------------------------

\* The types of all the services, and what each of them keeps together.
ServicesTypeOK ==
  /\ FilesTypeOK /\ OAuthTypeOK /\ ConnTypeOK /\ ArtifactsTypeOK /\ HomeTypeOK
  /\ CronTypeOK /\ ResultsTypeOK /\ CardsTypeOK

=============================================================================
