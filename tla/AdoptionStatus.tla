--------------------------- MODULE AdoptionStatus ---------------------------
(***************************************************************************)
(* The status vocabularies of pets and adoption applications, and the      *)
(* forward transitions an application may take.                            *)
(***************************************************************************)

PetStatuses == {"available", "pending", "adopted"}

AppStatuses == {"submitted", "org_review", "communicating", "confirmed",
                "offline_interview", "approved", "rejected"}

NextApplicationStatuses(s) ==
  CASE s = "submitted"         -> {"org_review", "rejected"}
    [] s = "org_review"        -> {"communicating", "rejected"}
    [] s = "communicating"     -> {"confirmed", "rejected"}
    [] s = "confirmed"         -> {"offline_interview"}
    [] s = "offline_interview" -> {"approved", "rejected"}
    [] OTHER                   -> {}
=============================================================================
