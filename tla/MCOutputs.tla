----------------------------- MODULE MCOutputs -----------------------------
(* A raw file, a composite file and a YouTube composite, alone and in both *)
(* orders; one raw output has two streams.  The YouTube composite has a    *)
(* writer that is started, the raw output behind it one that is not.       *)
EXTENDS Outputs

Raw(n) == [raw |-> TRUE, dest |-> "file", streams |-> n]
Composite(d) == [raw |-> FALSE, dest |-> d, streams |-> 1]
MCConfigs == {<<Raw(2)>>, <<Composite("none")>>,
              <<Raw(1), Composite("file")>>,
              <<Composite("youtube"), Raw(1)>>}
=============================================================================
