--------------------------- MODULE ContentProfiles ---------------------------
(***************************************************************************)
(* The two profiles whose schemas come with the program and not from a     *)
(* catalog: the dataset manifest's (core_dataset_manifest_profile_         *)
(* reference) and the licence claim's (standard_license_profile_reference).*)
(* A profile is a record [id, dig, target, subject, media, critical].      *)
(***************************************************************************)

DatasetId == "dataset-manifest"
DatasetMedia == "dataset-manifest+json"

DatasetProfile(name) ==
  [id |-> DatasetId, dig |-> "core pin", target |-> "artifact", subject |-> name,
   media |-> DatasetMedia, critical |-> TRUE]

LicenseProfile ==
  [id |-> "license-claim", dig |-> "standard pin", target |-> "statement", subject |-> 0,
   media |-> "none", critical |-> TRUE]
==============================================================================
