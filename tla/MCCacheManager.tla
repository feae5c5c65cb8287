--------------------------- MODULE MCCacheManager ---------------------------
(* Data is one line or an answer of two lines; the second line of every     *)
(* answer begins with the same word, which is a key once it is read back.   *)
EXTENDS CacheManager, TLC

CONSTANTS line, answer,
          files     \* the first word of the second line

MCData == {line, answer}
MCLines == [e \in Entries |->
    IF e.data = line THEN <<e>> ELSE <<Entry(e.key, line), Entry(files, line)>>]
KeySymmetry == Permutations(Keys \ {files})
=============================================================================
