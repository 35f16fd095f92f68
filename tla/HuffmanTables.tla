---------------------------- MODULE HuffmanTables ----------------------------
(***************************************************************************)
(* The entropy code tables of tables.go: for every table how many codes of *)
(* each length 1..16 there are, the values in the order of the codes, and  *)
(* the bounds below which a 16-bit prefix starts a code of a given length. *)
(***************************************************************************)

DCLuminance == [
  nrcodes |-> <<0, 1, 5, 1, 1, 1, 1, 1, 1, 0, 0, 0, 0, 0, 0, 0>>,
  values |->
    <<0, 1, 2, 3, 4, 5, 6, 7, 8, 9, 10, 11>>,
  codes |->
    <<<<16384, 2>>, <<24576, 3>>, <<32768, 3>>, <<40960, 3>>, <<49152, 3>>, <<57344, 3>>, <<61440, 4>>,
      <<63488, 5>>, <<64512, 6>>, <<65024, 7>>, <<65280, 8>>, <<65535, 9>>>>]

DCChrominance == [
  nrcodes |-> <<0, 3, 1, 1, 1, 1, 1, 1, 1, 1, 1, 0, 0, 0, 0, 0>>,
  values |->
    <<0, 1, 2, 3, 4, 5, 6, 7, 8, 9, 10, 11>>,
  codes |->
    <<<<16384, 2>>, <<32768, 2>>, <<49152, 2>>, <<57344, 3>>, <<61440, 4>>, <<63488, 5>>, <<64512, 6>>,
      <<65024, 7>>, <<65280, 8>>, <<65408, 9>>, <<65472, 10>>, <<65535, 11>>>>]

ACLuminance == [
  nrcodes |-> <<0, 2, 1, 3, 3, 2, 4, 3, 5, 5, 4, 4, 0, 0, 1, 125>>,
  values |->
    <<1, 2, 3, 0, 4, 17, 5, 18, 33, 49, 65, 6, 19, 81, 97, 7, 34, 113, 20, 50, 129, 145, 161, 8, 35, 66,
      177, 193, 21, 82, 209, 240, 36, 51, 98, 114, 130, 9, 10, 22, 23, 24, 25, 26, 37, 38, 39, 40,
      41, 42, 52, 53, 54, 55, 56, 57, 58, 67, 68, 69, 70, 71, 72, 73, 74, 83, 84, 85, 86, 87, 88,
      89, 90, 99, 100, 101, 102, 103, 104, 105, 106, 115, 116, 117, 118, 119, 120, 121, 122, 131,
      132, 133, 134, 135, 136, 137, 138, 146, 147, 148, 149, 150, 151, 152, 153, 154, 162, 163, 164,
      165, 166, 167, 168, 169, 170, 178, 179, 180, 181, 182, 183, 184, 185, 186, 194, 195, 196, 197,
      198, 199, 200, 201, 202, 210, 211, 212, 213, 214, 215, 216, 217, 218, 225, 226, 227, 228, 229,
      230, 231, 232, 233, 234, 241, 242, 243, 244, 245, 246, 247, 248, 249, 250>>,
  codes |->
    <<<<16384, 2>>, <<32768, 2>>, <<40960, 3>>, <<45056, 4>>, <<49152, 4>>, <<53248, 4>>, <<55296, 5>>,
      <<57344, 5>>, <<59392, 5>>, <<60416, 6>>, <<61440, 6>>, <<61952, 7>>, <<62464, 7>>, <<62976,
      7>>, <<63488, 7>>, <<63744, 8>>, <<64000, 8>>, <<64256, 8>>, <<64384, 9>>, <<64512, 9>>,
      <<64640, 9>>, <<64768, 9>>, <<64896, 9>>, <<64960, 10>>, <<65024, 10>>, <<65088, 10>>,
      <<65152, 10>>, <<65216, 10>>, <<65248, 11>>, <<65280, 11>>, <<65312, 11>>, <<65344, 11>>,
      <<65360, 12>>, <<65376, 12>>, <<65392, 12>>, <<65408, 12>>, <<65410, 15>>, <<65535, 16>>>>]

ACChrominance == [
  nrcodes |-> <<0, 2, 1, 2, 4, 4, 3, 4, 7, 5, 4, 4, 0, 1, 2, 119>>,
  values |->
    <<0, 1, 2, 3, 17, 4, 5, 33, 49, 6, 18, 65, 81, 7, 97, 113, 19, 34, 50, 129, 8, 20, 66, 145, 161,
      177, 193, 9, 35, 51, 82, 240, 21, 98, 114, 209, 10, 22, 36, 52, 225, 37, 241, 23, 24, 25, 26,
      38, 39, 40, 41, 42, 53, 54, 55, 56, 57, 58, 67, 68, 69, 70, 71, 72, 73, 74, 83, 84, 85, 86,
      87, 88, 89, 90, 99, 100, 101, 102, 103, 104, 105, 106, 115, 116, 117, 118, 119, 120, 121, 122,
      130, 131, 132, 133, 134, 135, 136, 137, 138, 146, 147, 148, 149, 150, 151, 152, 153, 154, 162,
      163, 164, 165, 166, 167, 168, 169, 170, 178, 179, 180, 181, 182, 183, 184, 185, 186, 194, 195,
      196, 197, 198, 199, 200, 201, 202, 210, 211, 212, 213, 214, 215, 216, 217, 218, 226, 227, 228,
      229, 230, 231, 232, 233, 234, 242, 243, 244, 245, 246, 247, 248, 249, 250>>,
  codes |->
    <<<<16384, 2>>, <<32768, 2>>, <<40960, 3>>, <<45056, 4>>, <<49152, 4>>, <<51200, 5>>, <<53248, 5>>,
      <<55296, 5>>, <<57344, 5>>, <<58368, 6>>, <<59392, 6>>, <<60416, 6>>, <<61440, 6>>, <<61952,
      7>>, <<62464, 7>>, <<62976, 7>>, <<63232, 8>>, <<63488, 8>>, <<63744, 8>>, <<64000, 8>>,
      <<64128, 9>>, <<64256, 9>>, <<64384, 9>>, <<64512, 9>>, <<64640, 9>>, <<64768, 9>>, <<64896,
      9>>, <<64960, 10>>, <<65024, 10>>, <<65088, 10>>, <<65152, 10>>, <<65216, 10>>, <<65248, 11>>,
      <<65280, 11>>, <<65312, 11>>, <<65344, 11>>, <<65360, 12>>, <<65376, 12>>, <<65392, 12>>,
      <<65408, 12>>, <<65412, 14>>, <<65414, 15>>, <<65416, 15>>, <<65535, 16>>>>]

HTDC == [luma |-> DCLuminance, chroma |-> DCChrominance]
HTAC == [luma |-> ACLuminance, chroma |-> ACChrominance]

=============================================================================
