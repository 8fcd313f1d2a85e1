------------------------------ MODULE RepoTests ------------------------------
(***************************************************************************)
(* The repository's tests: the executables xas makes of tests/test.NN.xas, *)
(* as <<address, words>> segments in a file of size bytes, and what        *)
(* tests/test.NN.expected shows of a run, in its order: the characters     *)
(* <<c>> and the dumps <<pc, state, changed>>, where changed has the       *)
(* registers, with their values, that differ from the dump before, or from *)
(* zero in the first one.                                                  *)
(***************************************************************************)
EXTENDS Naturals, Sequences

Test00 ==
    [size |-> 54,
     code |-> <<<<0, <<768, 57600, 2, 57616, 3, 57632, 4, 57648, 5, 57680,
              7, 33059, 33315, 33569, 33825, 16640, 16640, 18512, 18768, 0,
              36, 0, 255, 65280, 40, 256, 30664>>>>>>,
     shows |-> <<<<2, 2, <<>>>>, <<6, 2, <<<<0, 2>>>>>>, <<10, 2, <<<<1,
              3>>>>>>, <<14, 2, <<<<2, 4>>>>>>, <<18, 2, <<<<3, 5>>>>>>,
              <<22, 2, <<<<5, 7>>>>>>, <<24, 2, <<<<3, 9>>>>>>, <<26, 2,
              <<<<3, 5>>>>>>, <<28, 2, <<<<1, 12>>>>>>, <<30, 2, <<<<1,
              3>>>>>>, <<32, 2, <<<<0, 65534>>>>>>, <<34, 2, <<<<0,
              2>>>>>>, <<36, 2, <<<<5, 8>>>>>>, <<38, 2, <<<<5, 7>>>>>>>>]

Test01 ==
    [size |-> 52,
     code |-> <<<<0, <<768, 57600, 2, 57616, 3, 57632, 4, 57648, 5, 57680,
              7, 34096, 34337, 34642, 16960, 16960, 35109, 34853, 0, 36, 0,
              255, 65280, 38, 256, 28037>>>>>>,
     shows |-> <<<<2, 2, <<>>>>, <<6, 2, <<<<0, 2>>>>>>, <<10, 2, <<<<1,
              3>>>>>>, <<14, 2, <<<<2, 4>>>>>>, <<18, 2, <<<<3, 5>>>>>>,
              <<22, 2, <<<<5, 7>>>>>>, <<24, 2, <<<<0, 0>>>>>>, <<26, 2,
              <<<<1, 7>>>>>>, <<28, 2, <<<<2, 3>>>>>>, <<30, 2, <<<<4,
              1>>>>>>, <<32, 2, <<<<4, 0>>>>>>, <<34, 2, <<<<5, 56>>>>>>,
              <<36, 2, <<<<5, 7>>>>>>>>]

Test02 ==
    [size |-> 44,
     code |-> <<<<0, <<768, 57600, 0, 57616, 1, 57632, 2, 35345, 35346,
              35602, 35601, 35617, 35857, 35858, 0, 36, 0, 255, 65280, 30,
              256, 35586>>>>>>,
     shows |-> <<<<2, 2, <<>>>>, <<6, 2, <<>>>>, <<10, 2, <<<<1, 1>>>>>>,
              <<14, 2, <<<<2, 2>>>>>>, <<16, 3, <<>>>>, <<18, 2, <<>>>>,
              <<20, 3, <<>>>>, <<22, 2, <<>>>>, <<24, 2, <<>>>>, <<26, 3,
              <<>>>>, <<28, 2, <<>>>>>>]

Test03 ==
    [size |-> 42,
     code |-> <<<<0, <<768, 49408, 10, 49408, 14, 49408, 6, 0, 36, 0, 0,
              1040, 0, 3088, 0, 2064, 255, 65280, 16, 256, 41087>>>>>>,
     shows |-> <<<<2, 2, <<>>>>, <<10, 2, <<>>>>, <<6, 2, <<>>>>, <<14, 2,
              <<>>>>>>]

Test04 ==
    [size |-> 48,
     code |-> <<<<0, <<768, 57664, 14, 17728, 57664, 20, 17728, 57664, 8,
              17728, 0, 36, 0, 0, 1040, 0, 4112, 0, 2576, 255, 65280, 22,
              256, 27117>>>>>>,
     shows |-> <<<<2, 2, <<>>>>, <<6, 2, <<<<4, 14>>>>>>, <<14, 2, <<>>>>,
              <<18, 2, <<<<4, 8>>>>>>, <<8, 2, <<>>>>, <<12, 2, <<<<4,
              20>>>>>>, <<20, 2, <<>>>>>>]

Test05 ==
    [size |-> 46,
     code |-> <<<<0, <<768, 57616, 1, 57632, 2, 35858, 24842, 35857, 24842,
              49408, 22, 57600, 65535, 0, 36, 0, 0, 5136, 255, 65280, 28,
              256, 43314>>>>>>,
     shows |-> <<<<2, 2, <<>>>>, <<6, 2, <<<<1, 1>>>>>>, <<10, 2, <<<<2,
              2>>>>>>, <<12, 2, <<>>>>, <<14, 2, <<>>>>, <<16, 3, <<>>>>,
              <<26, 3, <<>>>>>>]

Test06 ==
    [size |-> 1064,
     code |-> <<<<0, <<768, 57840, 1042, 49664, 12, 0, 57600, 72, 256>>>>,
              <<1042, <<36, 0, 0, 1040, 0, 2064, 255, 65280, 1042, 256,
              24917>>>>>>,
     shows |-> <<<<2, 2, <<>>>>, <<6, 2, <<<<15, 1042>>>>>>, <<12, 2,
              <<<<15, 1040>>>>>>, <<16, 2, <<<<0, 72>>>>>>, <<10, 2,
              <<<<15, 1042>>>>>>>>]

Test07 ==
    [size |-> 1066,
     code |-> <<<<0, <<768, 57840, 1044, 57600, 14, 17920, 0, 57600, 72,
              256>>>>, <<1044, <<36, 0, 0, 1040, 0, 2064, 255, 65280, 1044,
              256, 64591>>>>>>,
     shows |-> <<<<2, 2, <<>>>>, <<6, 2, <<<<15, 1044>>>>>>, <<10, 2,
              <<<<0, 14>>>>>>, <<14, 2, <<<<15, 1042>>>>>>, <<18, 2,
              <<<<0, 72>>>>>>, <<12, 2, <<<<15, 1044>>>>>>>>]

Test08 ==
    [size |-> 54,
     code |-> <<<<0, <<768, 57600, 28, 57616, 30, 36354, 36371, 36641,
              36656, 36354, 36371, 36352, 36369, 0, 42, 13, 36, 0, 0, 1040,
              0, 2064, 255, 65280, 32, 256, 47760>>>>>>,
     shows |-> <<<<2, 2, <<>>>>, <<6, 2, <<<<0, 28>>>>>>, <<10, 2, <<<<1,
              30>>>>>>, <<12, 2, <<<<2, 42>>>>>>, <<14, 2, <<<<3,
              13>>>>>>, <<16, 2, <<>>>>, <<18, 2, <<>>>>, <<20, 2, <<<<2,
              13>>>>>>, <<22, 2, <<<<3, 42>>>>>>, <<24, 2, <<<<0,
              13>>>>>>, <<26, 2, <<<<1, 42>>>>>>>>]

Test09 ==
    [size |-> 1066,
     code |-> <<<<0, <<768, 57840, 1048, 57600, 42, 57616, 13, 17184, 17200,
              17440, 17456>>>>, <<1048, <<36, 0, 0, 1040, 255, 65280, 1048,
              256, 15558>>>>>>,
     shows |-> <<<<2, 2, <<>>>>, <<6, 2, <<<<15, 1048>>>>>>, <<10, 2,
              <<<<0, 42>>>>>>, <<14, 2, <<<<1, 13>>>>>>, <<16, 2, <<<<15,
              1046>>>>>>, <<18, 2, <<<<15, 1044>>>>>>, <<20, 2, <<<<15,
              1046>>>>>>, <<22, 2, <<<<15, 1048>>>>>>>>]

Test10 ==
    [size |-> 62,
     code |-> <<<<0, <<768, 57600, 36, 57616, 38, 36354, 36371, 36641,
              36656, 36354, 36371, 37169, 37152, 36882, 36867, 36354, 36371,
              0, 42, 13, 36, 0, 0, 1040, 0, 2064, 255, 65280, 40, 256,
              30734>>>>>>,
     shows |-> <<<<2, 2, <<>>>>, <<6, 2, <<<<0, 36>>>>>>, <<10, 2, <<<<1,
              38>>>>>>, <<12, 2, <<<<2, 42>>>>>>, <<14, 2, <<<<3,
              13>>>>>>, <<16, 2, <<>>>>, <<18, 2, <<>>>>, <<20, 2, <<<<2,
              13>>>>>>, <<22, 2, <<<<3, 42>>>>>>, <<24, 2, <<>>>>, <<26,
              2, <<>>>>, <<28, 2, <<<<2, 42>>>>>>, <<30, 2, <<<<3,
              13>>>>>>, <<32, 2, <<<<2, 3341>>>>>>, <<34, 2, <<<<3,
              10794>>>>>>>>]

Test11 ==
    [size |-> 22,
     code |-> <<<<0, <<57600, 1, 36097, 0, 36, 0, 255, 65280, 8, 256,
              37075>>>>>>,
     shows |-> <<>>]

Test12 ==
    [size |-> 66,
     code |-> <<<<0, <<768, 57600, 1, 57600, 65535, 57600, 0, 57600, 10,
              57600, 65526, 57600, 256, 57600, 1, 57600, 65535, 57600, 1,
              57600, 65535, 57600, 0, 57600, 256, 0, 36, 0, 255, 65280, 52,
              256, 28073>>>>>>,
     shows |-> <<<<2, 2, <<>>>>, <<6, 2, <<<<0, 1>>>>>>, <<10, 2, <<<<0,
              65535>>>>>>, <<14, 2, <<<<0, 0>>>>>>, <<18, 2, <<<<0,
              10>>>>>>, <<22, 2, <<<<0, 65526>>>>>>, <<26, 2, <<<<0,
              256>>>>>>, <<30, 2, <<<<0, 1>>>>>>, <<34, 2, <<<<0,
              65535>>>>>>, <<38, 2, <<<<0, 1>>>>>>, <<42, 2, <<<<0,
              65535>>>>>>, <<46, 2, <<<<0, 0>>>>>>, <<50, 2, <<<<0,
              256>>>>>>>>]

Test13 ==
    [size |-> 56,
     code |-> <<<<0, <<768, 57600, 72, 18176, 57600, 101, 18176, 57600, 108,
              18176, 57600, 108, 18176, 57600, 111, 18176, 57600, 10, 18176,
              256, 0, 36, 0, 255, 65280, 42, 256, 2229>>>>>>,
     shows |-> <<<<2, 2, <<>>>>, <<6, 2, <<<<0, 72>>>>>>, <<72>>, <<8, 2,
              <<>>>>, <<12, 2, <<<<0, 101>>>>>>, <<101>>, <<14, 2, <<>>>>,
              <<18, 2, <<<<0, 108>>>>>>, <<108>>, <<20, 2, <<>>>>, <<24,
              2, <<>>>>, <<108>>, <<26, 2, <<>>>>, <<30, 2, <<<<0,
              111>>>>>>, <<111>>, <<32, 2, <<>>>>, <<36, 2, <<<<0,
              10>>>>>>, <<10>>, <<38, 2, <<>>>>, <<768, 2, <<<<15,
              2>>>>>>>>]

Test14 ==
    [size |-> 1156,
     code |-> <<<<0, <<57840, 1034, 49664, 1034>>>>, <<1034, <<57600, 1060,
              17152, 49664, 1074, 49664, 1074, 49664, 1074, 49664, 1074,
              17408, 256, 18533, 27756, 28448, 30575, 29292, 25633, 0,
              17152, 17168, 36337, 57600, 6, 33025, 36368, 36865, 35345,
              24836, 25096, 18192, 18432, 25332, 57616, 10, 18192, 17424,
              17408, 256, 36, 0, 0, 528, 0, 1552, 4, 3088, 4, 4624, 4, 5648,
              4, 6672, 4, 7696, 255, 65280, 1114, 256, 23982>>>>>>,
     shows |-> <<<<72>>, <<101>>, <<108>>, <<108>>, <<111>>, <<32>>,
              <<119>>, <<111>>, <<114>>, <<108>>, <<100>>, <<33>>, <<10>>,
              <<72>>, <<101>>, <<108>>, <<108>>, <<111>>, <<32>>, <<119>>,
              <<111>>, <<114>>, <<108>>, <<100>>, <<33>>, <<10>>, <<72>>,
              <<101>>, <<108>>, <<108>>, <<111>>, <<32>>, <<119>>,
              <<111>>, <<114>>, <<108>>, <<100>>, <<33>>, <<10>>, <<72>>,
              <<101>>, <<108>>, <<108>>, <<111>>, <<32>>, <<119>>,
              <<111>>, <<114>>, <<108>>, <<100>>, <<33>>, <<10>>>>]

Tests == <<Test00, Test01, Test02, Test03, Test04, Test05, Test06, Test07,
            Test08, Test09, Test10, Test11, Test12, Test13, Test14>>

\* The bytes of a test's executable.
ImageOf(t) ==
    [i \in 1 .. t.size |->
        LET at(s) == (i - 1 - s[1]) \div 2 + 1
            In(s) == i > s[1] /\ at(s) <= Len(s[2])
            word  == IF \E k \in DOMAIN t.code : In(t.code[k])
                     THEN LET k == CHOOSE k \in DOMAIN t.code : In(t.code[k])
                          IN  t.code[k][2][at(t.code[k])]
                     ELSE 0
        IN  IF (i % 2) = 1 THEN word \div 256 ELSE word % 256]
=============================================================================
