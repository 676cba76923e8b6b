------------------------------- MODULE MCBootCmd ------------------------------
(* The boards, each with complete media; and one board with every kind of    *)
(* media, missing files, network settings and a forced id.                   *)
EXTENDS BootProps

Situation(b, layout, missing, off, marks) ==
  [board |-> b, boardid |-> IF b = "aesys_2319a" THEN Unset ELSE "board",
   trees |-> {"board", "other", "conf-default", "fdtfile"}, layout |-> layout,
   missing |-> missing, pxeOff |-> off, marks |-> marks, force |-> FALSE, forcedId |-> Unset]

Usual(b, layout, missing) == Situation(b, layout, missing, Methods, {"pxe"})

MCSituations ==
       {Usual(b, "partitions", {}) : b \in Boards}
  \cup {Usual(b, "files", {"fit"}) : b \in Boards}
  \cup {Usual("aesys_2522", layout, missing) :
          layout \in {"single", "files", "partitions"},
          missing \in {{"fit"}, {"fit", "Image"}, {"fit", "initrd"}, {"fit", "fdt"}}}
  \cup {Situation("aesys_2522", layout, {}, off, marks) :
          layout \in {"single", "files"}, off \in {{}, Methods, {"pxe"}},
          marks \in {{}, {"static"}}}
  \cup {[Usual("aesys_2522", layout, missing) EXCEPT !.forcedId = id] :
          layout \in {"single", "partitions"}, missing \in {{}, {"fit"}},
          id \in {"other", "unknown"}}
  \cup {[Usual("aesys_2522", layout, {}) EXCEPT !.force = TRUE] :
          layout \in {"files", "partitions"}}
==============================================================================
