----------------------------- MODULE MCLnurlPay -----------------------------
(***************************************************************************)
(* Instances of LnurlPay for TLC: both sides of every boundary of the      *)
(* IPv4 ranges, such addresses inside IPv6 ones, and both sides of every   *)
(* boundary of the IPv6 ranges.                                            *)
(***************************************************************************)
EXTENDS LnurlPay

Four == {<<0, 0>>, <<0, 255>>, <<1, 0>>, <<9, 255>>, <<10, 0>>, <<10, 255>>, <<11, 0>>,
         <<100, 63>>, <<100, 64>>, <<100, 127>>, <<100, 128>>, <<126, 255>>, <<127, 0>>,
         <<127, 255>>, <<128, 0>>, <<169, 253>>, <<169, 254>>, <<169, 255>>, <<172, 15>>,
         <<172, 16>>, <<172, 31>>, <<172, 32>>, <<192, 167>>, <<192, 168>>, <<192, 169>>,
         <<223, 255>>, <<224, 0>>, <<255, 255>>}

Carried == {f[1] * 256 + f[2] : f \in {<<9, 255>>, <<10, 0>>, <<169, 254>>, <<172, 31>>, <<172, 32>>}}

Six ==
  UNION {{<<0, 0, 0, 0, 0, 65535, n, 7>>, <<0, 0, 0, 0, 65535, 0, n, 7>>,
          <<0, 0, 0, 0, 0, 0, n, 7>>, <<100, 65435, 0, 0, 0, 0, n, 7>>,
          <<100, 65435, 0, 0, 0, 1, n, 7>>, <<8194, n, 7, 0, 0, 0, 0, 1>>} : n \in Carried}
  \cup {<<0, 0, 0, 0, 0, 0, 0, 0>>, <<0, 0, 0, 0, 0, 0, 0, 1>>, <<0, 0, 0, 0, 0, 0, 0, 2>>}
  \cup {<<100, 65435, 1, 0, 0, 0, 0, 7>>, <<100, 65435, 2, 0, 0, 0, 0, 7>>}
  \cup {<<n, 1, 0, 0, 0, 0, 0, 7>> : n \in {8193, 8195, 64511, 64512, 65023, 65024, 65151,
                                            65152, 65215, 65216, 65279, 65280, 65535}}

Addresses == Four \cup Six
Public == <<9, 255>>
NameAnswers == {{}} \cup {{a, Public} : a \in Addresses}

Caps == [json |-> 3, text |-> 2]
=============================================================================
