----------------------------- MODULE Compliance -----------------------------
(***************************************************************************)
(* The claims of a certificate: ComplianceMapper of                         *)
(* desktop/modules/compliance_mapper.py.  A claim is a framework key with   *)
(* its `satisfied' flag; names, versions and notes are left out.            *)
(***************************************************************************)
\* The keys that most rows of the table share.
Documented == {"NIST_800_53_MP6", "ISO_27001_A810", "GDPR_ART5_ART17", "HIPAA_164_310"}
MultiPass == Documented \cup {"NIST_800_88_CLEAR", "PCI_DSS_9_4_6", "CCPA", "ISO_27040"}

NistClear == Documented \cup {"NIST_800_88_CLEAR", "ISO_27040"}
NistPurge == Documented \cup {"NIST_800_88_PURGE", "ISO_27040"}
DoD3Pass == MultiPass \cup {"DOD_5220_22M"}
Gutmann == MultiPass \cup {"GUTMANN"}
Schneier == MultiPass \cup {"SCHNEIER"}
Afssi == Documented \cup {"AFSSI_5020", "NIST_800_88_CLEAR"}
Ar380 == {"AR_380_19", "NIST_800_88_CLEAR", "NIST_800_53_MP6"}
Navso == {"NAVSO_P5239_26", "NIST_800_53_MP6"}
HmgBaseline == {"HMG_IS5_BASELINE", "ISO_27001_A810", "GDPR_ART5_ART17"}
HmgEnhanced ==
  {"HMG_IS5_ENHANCED", "NIST_800_88_CLEAR", "ISO_27001_A810", "GDPR_ART5_ART17"}
DoD7Pass == MultiPass \cup {"DOD_5220_22M_7PASS"}
ZeroFill == {"ZERO_FILL", "GDPR_ART5_ART17"}

Table ==
  [NIST_800_88_CLEAR |-> NistClear, NIST_800_88_PURGE |-> NistPurge,
   DOD_5220_22M_3PASS |-> DoD3Pass, GUTMANN_35PASS |-> Gutmann,
   SCHNEIER_7PASS |-> Schneier, AFSSI_5020 |-> Afssi, AR_380_19 |-> Ar380,
   NAVSO_P5239_26 |-> Navso, HMG_IS5_BASELINE |-> HmgBaseline,
   HMG_IS5_ENHANCED |-> HmgEnhanced, DOD_5220_22M_7PASS |-> DoD7Pass,
   ZERO_FILL |-> ZeroFill]

WipeStandards == DOMAIN Table
MediaTypes == {"HDD", "SSD", "NVMe", "unknown"}

\* DataClassification; "none" is the absent argument.
Classes == {"none", "unclassified", "internal", "confidential", "secret",
            "top_secret", "personal_data", "pii", "phi", "cardholder_data"}

Satisfying == {"DOD_5220_22M_3PASS", "DOD_5220_22M_7PASS", "GUTMANN_35PASS", "SCHNEIER_7PASS"}

\* What an overwrite of flash memory loses: all but the standard Clear itself
\* claim their keys except that of Clear.
Downgraded(claims, standard, media) ==
  IF media \in {"SSD", "NVMe"} /\ standard # "NIST_800_88_CLEAR"
  THEN [k \in DOMAIN claims |-> claims[k] /\ k # "NIST_800_88_CLEAR"]
  ELSE claims

\* What a classification adds.
Added(standard, class) ==
  CASE class = "cardholder_data" -> [k \in {"PCI_DSS_9_4_6"} |-> standard \in Satisfying]
    [] class \in {"personal_data", "pii", "phi"} -> [k \in {"GDPR_ART5_ART17"} |-> TRUE]
    [] OTHER -> [k \in {} |-> TRUE]

\* ComplianceMapper.map; a key that is there already keeps its flag.
Map(standard, media, class) ==
  LET row == Downgraded([k \in Table[standard] \cup {"SOC2_CC6_5"} |-> TRUE], standard, media)
      more == Added(standard, class)
  IN [k \in DOMAIN row \cup DOMAIN more |-> IF k \in DOMAIN row THEN row[k] ELSE more[k]]

Satisfied(claims) == {k \in DOMAIN claims : claims[k]}
=============================================================================
