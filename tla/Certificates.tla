---------------------------- MODULE Certificates ----------------------------
(***************************************************************************)
(* The certificates at work: users answer the onboarding, ask for a        *)
(* ranking, and look certificates up, as the AI server does.               *)
(***************************************************************************)
EXTENDS Recommendations, CertSearch

certificatesVars == <<onboardingVars, recommendationVars, found>>

CertificatesInit == OnboardingInit /\ RecommendationInit /\ SearchInit

\* A lookup reads the catalogue only.  Its interleavings with other requests show
\* nothing, so it is made while there are none, and forgotten when they go on.
MayLook ==
  /\ \A s \in Submitter : submit[s] = Idle
  /\ \A a \in Asker : ask[a] = Idle

CertificatesNext ==
  \/ OnboardingNext /\ found' = NoAnswer /\ UNCHANGED recommendationVars
  \/ RecommendationNext /\ found' = NoAnswer
  \/ MayLook /\ SearchNext /\ UNCHANGED <<onboardingVars, recommendationVars>>

CertificatesSpec == CertificatesInit /\ [][CertificatesNext]_certificatesVars

=============================================================================
