------------------------------ MODULE MCShamir ------------------------------
EXTENDS Shamir

(* The field with four elements: x^2 + x + 1.                              *)
SmallReduction == {0, 1}

(* Every secret of one byte, split two or three of three; two secrets of    *)
(* two bytes; and the calls that Split refuses.                            *)
SmallCalls ==
  {<<<<byte>>, 3, k>> : byte \in Bytes, k \in {2, 3}}
    \cup {<<secret, 3, 2>> : secret \in {<< {0}, {1} >>, << {0}, {} >>}}
    \cup {<<<<>>, 3, 2>>, << << {0} >>, 3, 1>>, << << {0} >>, 2, 3>>, << << {0} >>, 4, 2>>}

(* A share that fits a 2-of-n split of one byte, one with two bytes.        *)
OtherShares == {encodeShare(2, 3, << {1} >>), encodeShare(2, 1, << {0}, {0} >>)}
=============================================================================
