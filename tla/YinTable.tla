------------------------------ MODULE YinTable ------------------------------
(***************************************************************************)
(* The syllables of _YinZhiTable in src/tabe_yin2zhi.h, in its order.      *)
(*                                                                         *)
(* The table is sorted by yin, and the initial of a syllable is in the     *)
(* bits from 9 up: there is a sequence for each initial, with the lower    *)
(* nine bits of its syllables (medial, final and tone).  The lists of      *)
(* characters are left out; no list is empty.                              *)
(***************************************************************************)
EXTENDS Naturals, Sequences, SequencesExt

RimesNoInitial == <<
    8, 12, 13, 16, 18, 24, 26, 27, 28, 32, 36, 40, 42, 43, 44, 48, 56, 58,
    59, 60, 64, 66, 67, 68, 72, 74, 75, 76, 80, 84, 88, 90, 91, 92, 96,
    104, 106, 107, 108, 128, 130, 131, 132, 136, 138, 139, 140, 144, 160,
    162, 163, 164, 170, 184, 186, 187, 188, 192, 194, 195, 196, 200, 202,
    203, 204, 208, 210, 211, 212, 216, 218, 219, 220, 224, 226, 227, 228,
    256, 258, 259, 260, 264, 266, 267, 268, 272, 275, 276, 296, 299, 300,
    304, 306, 307, 308, 328, 330, 331, 332, 336, 338, 339, 340, 344, 346,
    347, 348, 352, 355, 356, 384, 386, 387, 388, 416, 420, 456, 458, 459,
    460, 464, 466, 467, 468, 480, 482, 483, 484 >>

RimesB == <<
    0, 8, 10, 11, 12, 13, 16, 18, 19, 20, 21, 40, 42, 43, 44, 48, 51, 52,
    56, 58, 59, 60, 72, 75, 76, 80, 83, 84, 88, 91, 92, 96, 98, 99, 100,
    128, 130, 131, 132, 160, 162, 163, 164, 184, 187, 188, 200, 203, 204,
    208, 212, 224, 227, 228, 256, 258, 259, 260 >>

RimesP == <<
    0, 8, 10, 12, 16, 18, 19, 20, 40, 42, 43, 44, 48, 50, 51, 52, 56, 58,
    59, 60, 64, 66, 67, 72, 74, 75, 76, 80, 82, 83, 88, 90, 91, 92, 96, 98,
    99, 100, 128, 130, 131, 132, 160, 163, 184, 186, 187, 188, 200, 202,
    204, 208, 210, 211, 212, 224, 226, 227, 256, 258, 259, 260 >>

RimesM == <<
    0, 8, 10, 11, 12, 13, 16, 18, 19, 20, 21, 29, 42, 43, 44, 50, 51, 52,
    56, 58, 59, 60, 66, 67, 74, 75, 76, 80, 82, 83, 84, 85, 90, 91, 98, 99,
    100, 128, 130, 131, 132, 160, 164, 184, 186, 187, 188, 192, 196, 202,
    203, 204, 210, 211, 226, 227, 228, 258, 259, 260 >>

RimesF == <<
    0, 8, 10, 11, 12, 18, 48, 50, 51, 52, 66, 67, 72, 74, 75, 76, 80, 82,
    83, 84, 88, 90, 91, 92, 96, 98, 99, 100, 188, 256, 258, 259, 260, 356 >>

RimesD == <<
    0, 8, 10, 11, 12, 26, 29, 40, 43, 44, 51, 56, 59, 60, 64, 67, 68, 72,
    75, 76, 88, 91, 92, 96, 99, 100, 128, 130, 131, 132, 136, 160, 162,
    184, 187, 188, 192, 200, 203, 204, 224, 227, 228, 256, 258, 259, 260,
    272, 274, 275, 276, 304, 308, 328, 331, 332, 336, 339, 340, 352, 355,
    356 >>

RimesT == <<
    0, 8, 11, 12, 28, 40, 42, 44, 56, 58, 59, 60, 64, 66, 67, 68, 69, 72,
    74, 75, 76, 88, 90, 91, 92, 98, 128, 130, 131, 132, 160, 163, 164, 184,
    186, 187, 188, 200, 202, 203, 204, 224, 226, 227, 228, 256, 258, 259,
    260, 272, 274, 275, 276, 304, 306, 307, 308, 328, 330, 332, 336, 338,
    339, 340, 352, 354, 355, 356 >>

RimesN == <<
    0, 10, 11, 12, 13, 24, 28, 29, 42, 43, 44, 51, 52, 56, 58, 59, 60, 66,
    68, 72, 74, 75, 76, 84, 88, 90, 91, 92, 93, 98, 100, 130, 131, 132,
    160, 162, 164, 187, 188, 192, 194, 195, 196, 202, 203, 204, 210, 211,
    218, 220, 226, 227, 228, 258, 259, 260, 274, 275, 276, 331, 354, 356,
    387, 388, 420 >>

RimesL == <<
    0, 8, 10, 11, 12, 13, 28, 29, 42, 44, 48, 50, 51, 52, 56, 58, 59, 60,
    64, 66, 67, 68, 74, 75, 76, 88, 90, 91, 92, 98, 99, 100, 128, 130, 131,
    132, 139, 160, 163, 164, 184, 186, 187, 188, 192, 194, 195, 196, 202,
    203, 204, 210, 211, 212, 218, 219, 220, 224, 226, 227, 228, 256, 258,
    259, 260, 272, 274, 275, 276, 330, 331, 332, 336, 338, 339, 340, 354,
    355, 356, 386, 387, 388, 420, 458, 459 >>

RimesG == <<
    0, 8, 10, 12, 13, 24, 26, 27, 28, 29, 40, 43, 44, 51, 56, 59, 60, 64,
    67, 68, 72, 75, 76, 80, 82, 83, 84, 88, 91, 92, 96, 99, 100, 256, 258,
    259, 260, 264, 267, 268, 272, 274, 275, 276, 296, 299, 300, 304, 307,
    308, 328, 331, 332, 339, 340, 344, 347, 348, 352, 355, 356 >>

RimesK == <<
    0, 8, 11, 12, 24, 26, 27, 28, 40, 43, 44, 56, 59, 60, 64, 67, 68, 72,
    75, 76, 83, 84, 88, 90, 91, 92, 96, 99, 256, 259, 260, 264, 267, 268,
    275, 276, 296, 299, 300, 304, 306, 307, 308, 328, 331, 336, 339, 340,
    344, 346, 347, 348, 352, 355, 356 >>

RimesH == <<
    0, 8, 10, 11, 24, 26, 28, 40, 42, 43, 44, 48, 51, 56, 58, 59, 60, 64,
    66, 67, 68, 72, 74, 75, 76, 82, 83, 84, 88, 90, 91, 92, 96, 98, 100,
    256, 258, 259, 260, 264, 266, 268, 272, 274, 275, 276, 277, 298, 300,
    304, 306, 307, 308, 328, 330, 331, 332, 336, 338, 339, 340, 344, 346,
    347, 348, 352, 354, 355, 356 >>

RimesJ == <<
    0, 128, 130, 131, 132, 136, 138, 139, 140, 160, 162, 163, 164, 184,
    186, 187, 188, 192, 195, 196, 200, 203, 204, 208, 211, 212, 216, 219,
    220, 224, 227, 228, 384, 386, 387, 388, 416, 418, 419, 420, 456, 459,
    460, 464, 467, 468, 480, 483 >>

RimesQ == <<
    0, 128, 130, 131, 132, 136, 139, 140, 160, 162, 163, 164, 184, 186,
    187, 188, 192, 194, 195, 200, 202, 203, 204, 208, 210, 211, 212, 216,
    218, 219, 220, 224, 226, 227, 228, 384, 386, 387, 388, 416, 418, 420,
    456, 458, 459, 460, 464, 466, 480, 482 >>

RimesX == <<
    0, 128, 130, 131, 132, 136, 138, 140, 160, 162, 163, 164, 184, 186,
    187, 188, 192, 195, 196, 200, 202, 203, 204, 208, 210, 211, 212, 216,
    218, 219, 220, 224, 226, 227, 228, 384, 386, 387, 388, 416, 418, 419,
    420, 456, 458, 459, 460, 464, 466, 468, 480, 482, 484 >>

RimesZh == <<
    0, 2, 3, 4, 8, 10, 11, 12, 24, 26, 27, 28, 29, 40, 42, 43, 44, 56, 58,
    59, 60, 64, 66, 67, 68, 72, 75, 76, 80, 83, 84, 88, 91, 92, 96, 99,
    100, 256, 258, 259, 260, 264, 267, 272, 274, 296, 299, 300, 304, 307,
    308, 328, 331, 332, 336, 339, 340, 344, 347, 348, 352, 355, 356 >>

RimesCh == <<
    0, 2, 3, 4, 8, 10, 11, 12, 24, 27, 28, 40, 42, 44, 56, 58, 59, 60, 64,
    66, 67, 68, 72, 74, 75, 76, 80, 82, 83, 84, 88, 90, 91, 92, 96, 98, 99,
    100, 256, 258, 259, 260, 264, 272, 276, 298, 299, 300, 304, 306, 308,
    328, 330, 331, 332, 336, 338, 339, 344, 346, 347, 348, 352, 354, 355,
    356 >>

RimesSh == <<
    0, 2, 3, 4, 5, 8, 10, 11, 12, 24, 26, 27, 28, 40, 43, 44, 50, 56, 58,
    59, 60, 64, 66, 67, 68, 72, 75, 76, 80, 82, 83, 84, 88, 91, 92, 93, 96,
    98, 99, 100, 256, 258, 259, 260, 264, 267, 268, 272, 276, 296, 299,
    300, 306, 307, 308, 328, 332, 339, 340, 344, 347, 348 >>

RimesR == <<
    0, 4, 27, 28, 58, 59, 60, 66, 67, 68, 74, 75, 82, 83, 84, 90, 91, 92,
    96, 98, 99, 258, 259, 260, 274, 276, 306, 307, 308, 330, 331, 336, 340,
    354, 355 >>

RimesZ == <<
    0, 3, 4, 5, 8, 10, 26, 27, 28, 40, 43, 44, 50, 56, 58, 59, 60, 64, 67,
    68, 72, 74, 75, 76, 80, 83, 84, 88, 91, 92, 96, 100, 256, 258, 259,
    272, 274, 275, 276, 304, 307, 308, 328, 331, 332, 336, 339, 340, 352,
    355, 356 >>

RimesC == <<
    0, 2, 3, 4, 8, 11, 12, 28, 40, 42, 43, 44, 56, 58, 59, 60, 68, 72, 74,
    75, 76, 80, 82, 88, 90, 96, 98, 100, 256, 258, 260, 272, 274, 275, 276,
    304, 306, 307, 308, 328, 330, 332, 336, 338, 339, 340, 352, 354, 356 >>

RimesS == <<
    0, 3, 4, 5, 8, 11, 12, 28, 40, 44, 56, 59, 60, 64, 67, 68, 72, 75, 76,
    80, 88, 91, 92, 96, 256, 258, 260, 272, 274, 275, 276, 304, 306, 307,
    308, 328, 331, 332, 336, 339, 340, 352, 355, 356 >>

\* The rimes of initial i are those of element i + 1.
Rimes == <<
    RimesNoInitial, RimesB, RimesP, RimesM, RimesF, RimesD, RimesT,
    RimesN, RimesL, RimesG, RimesK, RimesH, RimesJ, RimesQ,
    RimesX, RimesZh, RimesCh, RimesSh, RimesR, RimesZ, RimesC,
    RimesS >>

\* The field yin of each entry of _YinZhiTable, from its first on.
YinZhiEntries ==
    FlattenSeq([i \in DOMAIN Rimes |->
                  [j \in DOMAIN Rimes[i] |-> 512 * (i - 1) + Rimes[i][j]]])

=============================================================================
