-------------------------- MODULE MCBlake3Compress --------------------------
(***************************************************************************)
(* Test vectors of tests/blake3Tests/vectors_test.go: byte i of an input   *)
(* is i % 251, and the output is the first 128 bytes, two halves a word.   *)
(***************************************************************************)
EXTENDS Blake3Compress

TestVectorKey ==
    <<119, 104, 97, 116, 115, 32, 116, 104, 101, 32, 69, 108, 118, 105, 115, 104, 32, 119, 111,
      114, 100, 32, 102, 111, 114, 32, 102, 114, 105, 101, 110, 100>>

TestVectorContext ==
    <<66, 76, 65, 75, 69, 51, 32, 50, 48, 49, 57, 45, 49, 50, 45, 50, 55, 32, 49, 54, 58, 50,
      57, 58, 53, 50, 32, 116, 101, 115, 116, 32, 118, 101, 99, 116, 111, 114, 115, 32, 99,
      111, 110, 116, 101, 120, 116>>

Vector(length, key, context, expected) ==
    [input |-> [i \in 1 .. length |-> (i - 1) % 251],
     key |-> key, context |-> context, output |-> expected]

MCVectors == {
    Vector(0, <<>>, <<>>,
      <<47433, 5039, 42657, 63989, 59981, 16544, 18889, 56374, 51493, 52123, 46866, 49581,
        51859, 39628, 25138, 8164, 59139, 4064, 27634, 39606, 40944, 43647, 20528, 13261,
        57567, 36147, 34508, 47237, 8331, 43420, 14884, 2156, 30536, 62758, 24822, 59529,
        40649, 59055, 11205, 57593, 12345, 59282, 22788, 43044, 30452, 37327, 56027, 65529,
        11970, 368, 9792, 39701, 51831, 62001, 64990, 62102, 33410, 2033, 13942, 20017, 21276,
        41881, 8532, 5731>>),
    Vector(0, TestVectorKey, <<>>,
      <<22199, 45714, 30268, 60676, 25199, 40223, 37514, 11321, 41742, 44327, 59251, 38384,
        35401, 61827, 9741, 54862, 41585, 33201, 37963, 10994, 8048, 11394, 56147, 28944,
        50200, 18850, 38098, 58554, 57836, 8284, 32098, 34611, 63947, 29499, 24189, 31099,
        32396, 37977, 17397, 35063, 58437, 57202, 51091, 16990, 54465, 6364, 30121, 17425,
        24713, 58763, 60129, 27525, 9772, 58043, 58637, 6483, 10811, 51808, 10857, 43716,
        17001, 4242, 59505, 50004>>),
    Vector(1, <<>>, <<>>,
      <<57310, 14893, 61793, 7153, 13678, 34892, 29494, 41135, 42887, 52589, 49589, 10061,
        53285, 593, 5090, 37621, 35787, 42691, 3298, 9206, 36191, 21467, 34555, 24346, 2972,
        11572, 48291, 44132, 24607, 54241, 31507, 64173, 55252, 35381, 31924, 38815, 61817,
        24125, 41863, 57209, 63598, 30649, 10627, 24370, 12196, 27528, 35603, 64263, 2292, 693,
        12780, 48156, 7815, 50581, 52450, 9068, 39622, 54167, 5050, 15969, 20755, 24350, 30938,
        61939>>),
    Vector(1023, TestVectorKey, <<>>,
      <<57324, 20937, 3981, 10243, 13550, 38604, 35389, 22035, 21641, 13677, 45871, 11391,
        18310, 38765, 28317, 6927, 53782, 905, 49848, 55526, 8539, 2651, 45391, 63872, 20719,
        22689, 17886, 15500, 55147, 38626, 54166, 42646, 34557, 16097, 25461, 40229, 53182,
        55687, 52977, 35676, 28856, 37409, 1833, 5413, 13260, 55478, 55334, 30929, 38844,
        47543, 34108, 36067, 40944, 36368, 49665, 15873, 33546, 49705, 44271, 59609, 3399,
        14171, 64885, 34210>>),
    Vector(1024, <<>>, <<>>,
      <<14663, 8514, 1700, 38384, 56963, 64755, 19060, 35256, 12792, 3520, 21930, 3521, 4701,
        39704, 63322, 34076, 29200, 63516, 63706, 60517, 55445, 23376, 43395, 60668, 60054,
        27274, 49618, 2385, 14458, 50297, 1204, 64383, 60014, 28533, 17467, 35047, 45547,
        28779, 8316, 21060, 45706, 43893, 27400, 49156, 37756, 11186, 50671, 26068, 32657,
        36223, 27996, 14347, 28903, 26098, 593, 47107, 60806, 29846, 23644, 56151, 17594,
        28833, 39661, 10004>>),
    Vector(1024, <<>>, TestVectorContext,
      <<30669, 22131, 27574, 54560, 60311, 1645, 63705, 30513, 23626, 15063, 38536, 38494,
        38504, 27371, 1575, 12420, 438, 9068, 14843, 56787, 51413, 36894, 19183, 52716, 48228,
        41698, 47634, 59113, 40380, 57877, 18673, 19045, 56181, 11803, 38677, 59051, 47984,
        4175, 34134, 19880, 17315, 25906, 28534, 46128, 53741, 30094, 1125, 41460, 520, 49526,
        48484, 11250, 18130, 6457, 30113, 8378, 49489, 48216, 50910, 61337, 10146, 32894,
        55304, 6181>>) }
=============================================================================
