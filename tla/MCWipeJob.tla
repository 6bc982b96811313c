----------------------------- MODULE MCWipeJob -----------------------------
(* Instances of WipeJob for TLC.                                            *)
EXTENDS WipeJob

\* A folder of two files on flash memory, one of them also added by itself by
\* a link on a mapped device, and a socket.
KindOf == [link |-> "file", folder |-> "folder", socket |-> "other"]
FilesOf == [link |-> {2}, folder |-> {1, 2}, socket |-> {}]
DriveOf == [link |-> [kind |-> "mapped", rotational |-> FALSE],
            folder |-> [kind |-> "nvme", rotational |-> FALSE],
            socket |-> [kind |-> "unreadable", rotational |-> TRUE]]

\* ComplianceMapper.map over all its arguments, of which the worker gives the
\* first two: a classification takes no claim away, and nothing is claimed for
\* flash memory that is not claimed for a disk.
ASSUME MapAssumption ==
  \A s \in WipeStandards, m \in MediaTypes, c \in Classes :
    /\ Satisfied(Map(s, m, "none")) \subseteq Satisfied(Map(s, m, c))
    /\ Satisfied(Map(s, m, c)) \subseteq Satisfied(Map(s, "HDD", c))

\* Either one batch over up to two targets, which another program may disturb,
\* or two that overwrite the same file or pass over the socket, without the file
\* that is in the folder alone, or three over the socket, the first of which has
\* outlived its cancellation.  The list is edited before the first (a worker has
\* its own copy), and the other program acts while the batch runs (what it does
\* before, it could do before the scan).
MattersNow ==
  /\ ui'.targets # ui.targets => workers = << >>
  /\ Len(workers') > 1 =>
       /\ changes' = 0 /\ content'[1] = "absent"
       /\ \A b \in DOMAIN workers' :
            /\ Len(workers'[b].targets) = 1 /\ workers'[b].targets # <<"folder">>
            /\ workers'[b].standard # "NIST_800_88_PURGE"
  /\ Len(workers') > 2 =>
       /\ workers'[1].outlived
       /\ content'[2] = "absent"
       /\ \A b \in DOMAIN workers' : workers'[b].targets = <<"socket">>
  /\ changes' # changes => \E b \in DOMAIN workers : Running(b)
=============================================================================
