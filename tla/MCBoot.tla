------------------------------- MODULE MCBoot -------------------------------
(* Boot and Smp for TLC.  The machines have 2, 3, 16, 32 and 60 MB; BigRam *)
(* is QEMU's default of 128 MB.  The image ends at 2.5 MB.  The tables     *)
(* fail every check of mpconfig in turn, list up to four processors, one   *)
(* more than there is room for, and entries that are skipped or unknown.   *)
EXTENDS Smp

Ram == {[base |-> 640, ext |-> 1024, ext16 |-> 0],
        [base |-> 640, ext |-> 2048, ext16 |-> 0],
        [base |-> 639, ext |-> 15360, ext16 |-> 0],
        [base |-> 639, ext |-> 64512, ext16 |-> 256],
        [base |-> 640, ext |-> 64512, ext16 |-> 704]}
BigRam == {[base |-> 639, ext |-> 64512, ext16 |-> 1792]}

Table == [at |-> "rom", ebda |-> FALSE, physaddr |-> 1, type |-> 0, signature |-> "PCMP",
          sum |-> 0, version |-> 4, xsum |-> 0,
          entries |-> <<"bootproc", "proc", "other", "proc">>]
Tables ==
    {Table,
     [Table EXCEPT !.at = "ebda", !.ebda = TRUE, !.entries = <<"bootproc", "other">>],
     [Table EXCEPT !.at = "base", !.entries = <<"bootproc", "proc", "proc", "proc">>],
     [Table EXCEPT !.entries = <<"bootproc", "unknown", "proc">>],
     [Table EXCEPT !.at = "base", !.ebda = TRUE],
     [Table EXCEPT !.at = "none"], [Table EXCEPT !.physaddr = 0],
     [Table EXCEPT !.type = 1], [Table EXCEPT !.signature = "bad"],
     [Table EXCEPT !.sum = 1], [Table EXCEPT !.version = 2], [Table EXCEPT !.xsum = 1]}
=============================================================================
