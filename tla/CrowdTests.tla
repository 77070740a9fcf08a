------------------------------ MODULE CrowdTests ------------------------------
(***************************************************************************)
(* What the game's own tests expect of its questions                        *)
(* (games/crowd/unittest.cc): for each test, the question, how many chose   *)
(* each option from A, and the hundredths of a point that each of them has  *)
(* after the only round.  All players begin with nothing, so it does not    *)
(* matter who chose what.  The two tests of several rounds are left out.    *)
(***************************************************************************)
EXTENDS Integers, SequencesExt

TestsOf1To4 == <<
    <<1, <<6>>, <<0>>>>, <<1, <<0,6>>, <<0,200>>>>, <<1, <<0,0,6>>, <<0,0,-100>>>>,
    <<1, <<1,3,2>>, <<300,200,100>>>>, <<1, <<2,2,2>>, <<0,200,-100>>>>, <<2, <<6>>, <<200>>>>,
    <<2, <<0,6>>, <<0,0>>>>, <<2, <<2,2>>, <<200,600>>>>, <<2, <<1,3>>, <<200,0>>>>,
    <<2, <<3,1>>, <<200,0>>>>, <<3, <<12>>, <<300>>>>, <<3, <<0,12>>, <<0,0>>>>,
    <<3, <<3,1>>, <<100,150>>>>, <<3, <<1,3>>, <<100,50>>>>, <<4, <<6>>, <<100>>>>,
    <<4, <<0,6>>, <<0,350>>>>, <<4, <<0,0,6>>, <<0,0,0>>>>, <<4, <<0,0,0,6>>, <<0,0,0,0>>>>,
    <<4, <<0,0,0,0,6>>, <<0,0,0,0,67>>>>, <<4, <<1,2,1,1,1>>, <<100,350,300,500,400>>>>>>

TestsOf5To8 == <<
    <<5, <<6>>, <<0>>>>, <<5, <<0,6>>, <<0,0>>>>, <<5, <<0,0,6>>, <<0,0,0>>>>,
    <<5, <<0,0,0,6>>, <<0,0,0,100>>>>, <<5, <<1,2,3>>, <<400,300,0>>>>,
    <<5, <<2,0,4>>, <<0,0,200>>>>, <<6, <<6>>, <<-100>>>>, <<6, <<0,6>>, <<0,200>>>>,
    <<6, <<0,0,6>>, <<0,0,-50>>>>, <<6, <<4,1,1>>, <<-100,-300,0>>>>,
    <<6, <<1,4,1>>, <<0,200,100>>>>, <<6, <<1,1,4>>, <<0,0,-50>>>>, <<7, <<6>>, <<-300>>>>,
    <<7, <<0,6>>, <<0,100>>>>, <<8, <<7>>, <<100>>>>, <<8, <<0,7>>, <<0,125>>>>,
    <<8, <<9>>, <<100>>>>, <<8, <<0,9>>, <<0,118>>>>>>

TestsOf9To11 == <<
    <<9, <<6>>, <<0>>>>, <<9, <<0,6>>, <<0,100>>>>, <<9, <<0,0,6>>, <<0,0,0>>>>,
    <<9, <<0,0,0,6>>, <<0,0,0,0>>>>, <<9, <<3,2,1>>, <<200,100,0>>>>,
    <<9, <<3,1,2>>, <<-200,0,0>>>>, <<9, <<1,1,3,1>>, <<-200,0,0,50>>>>, <<10, <<6>>, <<300>>>>,
    <<10, <<0,6>>, <<0,-100>>>>, <<10, <<0,0,6>>, <<0,0,-50>>>>, <<10, <<4,0,2>>, <<300,0,-50>>>>,
    <<10, <<3,1,2>>, <<-200,-100,-50>>>>, <<11, <<6>>, <<100>>>>, <<11, <<0,6>>, <<0,-100>>>>,
    <<11, <<0,0,6>>, <<0,0,0>>>>, <<11, <<0,0,0,6>>, <<0,0,0,0>>>>,
    <<11, <<0,3,3>>, <<0,-100,250>>>>, <<11, <<1,2,2,1>>, <<100,200,250,300>>>>>>

TestsOf12To14 == <<
    <<12, <<6>>, <<0>>>>, <<12, <<0,6>>, <<0,200>>>>, <<12, <<0,0,6>>, <<0,0,100>>>>,
    <<12, <<0,0,0,6>>, <<0,0,0,0>>>>, <<12, <<1,3,1,1>>, <<300,200,100,0>>>>,
    <<12, <<0,0,2,4>>, <<0,0,100,400>>>>, <<13, <<6>>, <<300>>>>, <<13, <<0,6>>, <<0,200>>>>,
    <<13, <<0,0,6>>, <<0,0,-100>>>>, <<13, <<0,0,0,6>>, <<0,0,0,-600>>>>,
    <<13, <<1,1,1,3>>, <<-400,-200,-100,-300>>>>, <<13, <<1,1,3,1>>, <<300,200,-100,-100>>>>,
    <<14, <<10>>, <<0>>>>, <<14, <<0,10>>, <<0,0>>>>, <<14, <<0,0,10>>, <<0,0,0>>>>,
    <<14, <<0,0,0,10>>, <<0,0,0,0>>>>, <<14, <<1,3,4,2>>, <<300,200,100,200>>>>,
    <<14, <<2,4,0,4>>, <<0,0,0,200>>>>>>

TestsOf15To17 == <<
    <<15, <<6>>, <<-100>>>>, <<15, <<0,6>>, <<0,300>>>>, <<15, <<0,0,6>>, <<0,0,100>>>>,
    <<15, <<2,2,2>>, <<100,200,100>>>>, <<16, <<6>>, <<-100>>>>, <<16, <<0,6>>, <<0,-100>>>>,
    <<16, <<0,0,6>>, <<0,0,-400>>>>, <<16, <<2,3,1>>, <<0,-100,0>>>>,
    <<16, <<2,0,4>>, <<-100,0,-400>>>>, <<17, <<6>>, <<-300>>>>, <<17, <<0,6>>, <<0,100>>>>,
    <<17, <<0,0,6>>, <<0,0,-100>>>>, <<17, <<3,0,3>>, <<300,0,-100>>>>,
    <<17, <<4,0,2>>, <<-300,0,200>>>>>>

TestsOf18To19 == <<
    <<18, <<6>>, <<83>>>>, <<18, <<0,6>>, <<0,83>>>>, <<18, <<0,0,6>>, <<0,0,50>>>>,
    <<18, <<0,1,5>>, <<0,500,60>>>>, <<18, <<1,5>>, <<200,100>>>>,
    <<18, <<0,3,3>>, <<0,167,100>>>>, <<18, <<2,2,2>>, <<250,250,150>>>>, <<19, <<6>>, <<-100>>>>,
    <<19, <<0,6>>, <<0,0>>>>, <<19, <<0,0,6>>, <<0,0,100>>>>, <<19, <<1,0,5>>, <<200,0,100>>>>,
    <<19, <<4,1,1>>, <<-100,0,-200>>>>>>

TestsOf20To23 == <<
    <<20, <<6>>, <<100>>>>, <<20, <<0,6>>, <<0,0>>>>, <<20, <<0,0,6>>, <<0,0,300>>>>,
    <<20, <<0,1,5>>, <<0,500,300>>>>, <<20, <<1,5>>, <<600,0>>>>, <<20, <<0,4,2>>, <<0,50,300>>>>,
    <<20, <<2,2,2>>, <<200,100,300>>>>, <<21, <<6>>, <<-200>>>>, <<21, <<0,6>>, <<0,0>>>>,
    <<21, <<1,5>>, <<-200,0>>>>, <<22, <<6>>, <<100>>>>, <<22, <<0,6>>, <<0,0>>>>,
    <<22, <<0,0,6>>, <<0,0,-100>>>>, <<22, <<0,0,0,6>>, <<0,0,0,-200>>>>,
    <<22, <<0,0,0,0,6>>, <<0,0,0,0,-450>>>>, <<22, <<1,1,1,1,2>>, <<0,-100,-200,-300,-250>>>>,
    <<23, <<6>>, <<100>>>>, <<23, <<0,6>>, <<0,0>>>>, <<23, <<3,3>>, <<100,0>>>>>>

TestsOf24To25 == <<
    <<24, <<6>>, <<-200>>>>, <<24, <<0,6>>, <<0,0>>>>, <<24, <<0,0,6>>, <<0,0,-200>>>>,
    <<24, <<0,0,0,6>>, <<0,0,0,-50>>>>, <<24, <<1,3,1,1>>, <<200,0,200,0>>>>,
    <<24, <<2,2,2>>, <<0,0,0>>>>, <<24, <<3,0,2,1>>, <<-200,0,0,0>>>>,
    <<24, <<2,0,2,2>>, <<-200,0,-200,-50>>>>, <<25, <<6>>, <<0>>>>, <<25, <<0,6>>, <<0,100>>>>,
    <<25, <<0,0,6>>, <<0,0,200>>>>, <<25, <<0,0,0,6>>, <<0,0,0,300>>>>,
    <<25, <<0,0,0,0,6>>, <<0,0,0,0,400>>>>, <<25, <<0,0,0,0,0,6>>, <<0,0,0,0,0,500>>>>,
    <<25, <<0,0,0,0,0,0,6>>, <<0,0,0,0,0,0,600>>>>,
    <<25, <<0,0,0,0,0,0,0,6>>, <<0,0,0,0,0,0,0,700>>>>, <<25, <<0,1,5>>, <<0,100,0>>>>,
    <<25, <<0,0,0,0,0,0,1,5>>, <<0,0,0,0,0,0,600,0>>>>,
    <<25, <<0,3,0,0,0,0,0,3>>, <<0,0,0,0,0,0,0,0>>>>>>

TestsOf26To27 == <<
    <<26, <<6>>, <<150>>>>, <<26, <<0,6>>, <<0,0>>>>, <<26, <<0,0,6>>, <<0,0,-200>>>>,
    <<26, <<2,4>>, <<-100,0>>>>, <<26, <<0,2,4>>, <<0,100,-200>>>>,
    <<26, <<4,0,2>>, <<150,0,200>>>>, <<26, <<3,3>>, <<-100,100>>>>, <<27, <<6>>, <<-100>>>>,
    <<27, <<0,6>>, <<0,-100>>>>, <<27, <<0,0,6>>, <<0,0,-100>>>>,
    <<27, <<0,0,0,6>>, <<0,0,0,0>>>>, <<27, <<1,1,1,3>>, <<150,50,100,0>>>>,
    <<27, <<3,2,1>>, <<-100,0,100>>>>, <<27, <<2,2,2>>, <<-100,-150,-150>>>>>>

TestsOf28To29 == <<
    <<28, <<6>>, <<-200>>>>, <<28, <<0,6>>, <<0,-100>>>>, <<28, <<0,0,6>>, <<0,0,0>>>>,
    <<28, <<0,0,0,6>>, <<0,0,0,150>>>>, <<28, <<3,1,0,2>>, <<-200,100,0,-150>>>>,
    <<28, <<2,0,1,3>>, <<200,0,0,150>>>>, <<29, <<6>>, <<50>>>>, <<29, <<0,6>>, <<0,-50>>>>,
    <<29, <<0,0,6>>, <<0,0,-100>>>>, <<29, <<0,0,0,6>>, <<0,0,0,-250>>>>,
    <<29, <<2,3,1>>, <<100,-50,200>>>>, <<29, <<1,1,3,1>>, <<50,150,-100,400>>>>>>

TestsOf30To31 == <<
    <<30, <<6>>, <<-100>>>>, <<30, <<0,6>>, <<0,0>>>>, <<30, <<0,0,6>>, <<0,0,-50>>>>,
    <<30, <<0,0,0,6>>, <<0,0,0,-3000>>>>, <<30, <<3,3>>, <<0,0>>>>,
    <<30, <<1,1,4>>, <<0,0,-50>>>>, <<30, <<1,1,1,3>>, <<0,0,0,-3000>>>>,
    <<30, <<1,3,1,1>>, <<100,0,100,100>>>>, <<31, <<6>>, <<150>>>>, <<31, <<0,6>>, <<0,50>>>>,
    <<31, <<0,0,6>>, <<0,0,0>>>>, <<31, <<0,0,0,6>>, <<0,0,0,-200>>>>,
    <<31, <<2,0,0,4>>, <<-350,0,0,-200>>>>, <<31, <<1,2,1,2>>, <<500,50,0,-200>>>>>>

TestsOf32To33 == <<
    <<32, <<6>>, <<100>>>>, <<32, <<0,6>>, <<0,-300>>>>, <<32, <<0,0,6>>, <<0,0,100>>>>,
    <<32, <<0,0,0,6>>, <<0,0,0,0>>>>, <<32, <<2,1,1,1>>, <<100,400,-100,100>>>>,
    <<32, <<1,2,1,1>>, <<200,-300,200,300>>>>, <<32, <<1,1,2,1>>, <<200,300,100,-100>>>>,
    <<32, <<1,1,1,2>>, <<100,300,100,0>>>>, <<32, <<0,2,0,2>>, <<0,300,0,0>>>>,
    <<33, <<6>>, <<100>>>>, <<33, <<0,6>>, <<0,0>>>>, <<33, <<0,0,6>>, <<0,0,0>>>>,
    <<33, <<3,3>>, <<100,0>>>>, <<33, <<1,2,3>>, <<0,300,0>>>>, <<33, <<1,2,2>>, <<0,300,600>>>>>>

TestsOf34To36 == <<
    <<34, <<6>>, <<0>>>>, <<34, <<0,6>>, <<0,0>>>>, <<34, <<0,0,6>>, <<0,0,100>>>>,
    <<34, <<0,0,0,6>>, <<0,0,0,50>>>>, <<34, <<1,2,2,1>>, <<300,0,100,50>>>>,
    <<34, <<3,2,1>>, <<0,200,100>>>>, <<35, <<6>>, <<150>>>>, <<35, <<0,6>>, <<0,0>>>>,
    <<35, <<0,0,6>>, <<0,0,-100>>>>, <<35, <<2,2,2>>, <<-250,0,-100>>>>,
    <<35, <<3,2,1>>, <<200,-200,0>>>>, <<36, <<6>>, <<50>>>>, <<36, <<0,6>>, <<0,0>>>>,
    <<36, <<0,0,6>>, <<0,0,0>>>>, <<36, <<0,0,0,6>>, <<0,0,0,0>>>>,
    <<36, <<1,2,2,1>>, <<50,100,150,200>>>>, <<36, <<0,2,3,1>>, <<0,0,0,200>>>>>>

TestsOf38To41 == <<
    <<38, <<1,3,1>>, <<-100,-150,200>>>>, <<38, <<2,2,1>>, <<200,-150,200>>>>,
    <<39, <<1,2,1,1>>, <<-400,-300,-200,-100>>>>, <<39, <<0,1,4>>, <<0,-300,-600>>>>,
    <<39, <<0,0,3,3>>, <<0,0,-200,-600>>>>, <<40, <<5>>, <<0>>>>, <<40, <<0,5>>, <<0,0>>>>,
    <<40, <<0,0,5>>, <<0,0,100>>>>, <<40, <<0,0,0,5>>, <<0,0,0,50>>>>,
    <<40, <<2,0,3>>, <<400,0,0>>>>, <<40, <<2,1,1,1>>, <<0,200,0,50>>>>, <<41, <<5>>, <<0>>>>,
    <<41, <<0,5>>, <<0,200>>>>, <<41, <<0,0,5>>, <<0,0,0>>>>, <<41, <<0,0,0,5>>, <<0,0,0,0>>>>,
    <<41, <<0,0,0,0,5>>, <<0,0,0,0,-200>>>>, <<41, <<0,3,2>>, <<0,200,200>>>>,
    <<41, <<1,1,1,1,1>>, <<0,100,-200,0,200>>>>, <<41, <<0,1,0,2,2>>, <<0,100,0,0,-200>>>>>>

TestsOf42To47 == <<
    <<42, <<6>>, <<-200>>>>, <<42, <<0,6>>, <<0,150>>>>, <<42, <<0,0,6>>, <<0,0,-100>>>>,
    <<42, <<2,2,2>>, <<200,150,0>>>>, <<42, <<3,2,1>>, <<-200,-50,200>>>>,
    <<43, <<1,3,1>>, <<300,200,-100>>>>, <<43, <<1,2,2>>, <<300,-100,300>>>>,
    <<43, <<1,3,2>>, <<-100,167,400>>>>, <<44, <<3,3>>, <<200,200>>>>, <<44, <<1,5>>, <<0,50>>>>,
    <<45, <<1,2,2,1>>, <<200,-200,50,300>>>>, <<45, <<2,2,0,2>>, <<200,-200,0,300>>>>,
    <<45, <<3,1,0,2>>, <<-100,150,0,300>>>>, <<46, <<3,1>>, <<300,100>>>>,
    <<46, <<1,3>>, <<-200,100>>>>, <<46, <<2,2>>, <<-200,100>>>>,
    <<47, <<1,1,3>>, <<150,200,100>>>>>>

TestsOf48To52 == <<
    <<48, <<1,2,1,1>>, <<150,200,100,-200>>>>, <<48, <<2,1,1,1>>, <<150,200,100,-200>>>>,
    <<48, <<1,1,2,1>>, <<0,-100,100,200>>>>, <<49, <<2,1,1,1,1>>, <<100,300,300,300,300>>>>,
    <<49, <<1,2,1,1,1>>, <<100,100,100,100,100>>>>, <<49, <<1,1,3,1>>, <<0,0,300,0>>>>,
    <<49, <<1,1,2,2>>, <<300,300,-150,200>>>>, <<49, <<2,0,0,2,2>>, <<550,0,0,500,-50>>>>,
    <<50, <<1,2,0,3>>, <<500,300,0,300>>>>, <<50, <<1,1,1,3>>, <<400,0,-100,100>>>>,
    <<50, <<1,1,2,2>>, <<0,-400,-100,0>>>>, <<51, <<2,2,1>>, <<200,150,200>>>>,
    <<51, <<2,1,2>>, <<400,150,50>>>>, <<52, <<3,1,2>>, <<-100,0,-40>>>>,
    <<52, <<2,2,2>>, <<-100,-200,-240>>>>>>

TestsOf53To57 == <<
    <<53, <<1,2,1,2>>, <<100,200,-200,-50>>>>, <<53, <<1,1,4>>, <<-100,-300,100>>>>,
    <<54, <<1,1,1,2>>, <<100,200,300,400>>>>, <<54, <<1,2,0,2>>, <<100,200,0,-400>>>>,
    <<54, <<0,2,2,1>>, <<0,-200,-300,-400>>>>, <<55, <<3,1,2>>, <<0,200,-200>>>>,
    <<55, <<3,3>>, <<-200,200>>>>, <<55, <<2,2,2>>, <<0,-200,100>>>>, <<56, <<4>>, <<-300>>>>,
    <<56, <<0,4>>, <<0,0>>>>, <<56, <<1,3>>, <<300,0>>>>, <<56, <<2,2>>, <<-300,0>>>>,
    <<56, <<3,1>>, <<-300,0>>>>, <<57, <<1,1,2,1>>, <<0,100,200,-300>>>>,
    <<57, <<1,1,1,0,2>>, <<0,100,200,0,-400>>>>, <<57, <<0,1,2,1,1>>, <<0,0,0,0,400>>>>>>

TestsOf58To60 == <<
    <<58, <<6>>, <<-300>>>>, <<58, <<0,6>>, <<0,-300>>>>, <<58, <<0,0,6>>, <<0,0,-100>>>>,
    <<58, <<0,0,0,6>>, <<0,0,0,-100>>>>, <<58, <<1,2,2,1>>, <<300,-300,-100,100>>>>,
    <<58, <<2,1,1,2>>, <<-300,300,100,-100>>>>, <<59, <<2,0,3>>, <<320,0,100>>>>,
    <<59, <<1,2,2>>, <<0,-100,100>>>>, <<59, <<2,1,0,1,1>>, <<0,0,0,-400,0>>>>,
    <<59, <<1,1,1,1,1>>, <<0,0,0,200,0>>>>, <<60, <<1,2,2>>, <<0,200,100>>>>,
    <<60, <<2,2,1>>, <<0,-300,-100>>>>, <<60, <<1,1,1,2>>, <<300,200,200,0>>>>,
    <<60, <<1,1,2,2>>, <<0,0,0,700>>>>, <<60, <<0,2,1,3>>, <<0,-300,-100,0>>>>,
    <<60, <<0,1,2,3>>, <<0,0,0,0>>>>>>

TestsOf61To66 == <<
    <<61, <<2,1,1,0,1>>, <<0,100,150,0,250>>>>, <<61, <<1,1,1,1,1>>, <<50,100,150,200,250>>>>,
    <<62, <<1,3>>, <<200,-150>>>>, <<62, <<2,2>>, <<0,0>>>>,
    <<62, <<2,3,1,1>>, <<0,-150,200,0>>>>, <<63, <<3,1,1,1>>, <<200,200,-50,-100>>>>,
    <<63, <<1,3,2>>, <<-100,0,50>>>>, <<63, <<2,2,2,0,1>>, <<-100,100,100,0,200>>>>,
    <<64, <<3,1,1>>, <<-100,100,0>>>>, <<64, <<1,3,1>>, <<200,-100,0>>>>,
    <<64, <<2,2,1>>, <<-100,-100,0>>>>, <<65, <<2,1,1,2>>, <<-100,200,300,100>>>>,
    <<65, <<0,2,0,2,1,1>>, <<0,-200,0,-100,200,-300>>>>,
    <<66, <<2,1,1,1,1>>, <<100,200,300,400,500>>>>, <<66, <<2,2,0,2>>, <<100,200,0,0>>>>>>

TestsOf67To71 == <<
    <<67, <<3,2,1>>, <<0,200,400>>>>, <<67, <<1,3,2>>, <<0,-100,400>>>>,
    <<67, <<3,1,2>>, <<0,200,-200>>>>, <<68, <<3,3>>, <<100,100>>>>, <<68, <<1,5>>, <<500,100>>>>,
    <<69, <<3,1,1,1>>, <<100,180,0,100>>>>, <<69, <<1,2,2,1>>, <<300,90,300,100>>>>,
    <<70, <<1,2,1,2>>, <<0,100,50,175>>>>, <<70, <<1,3,0,2>>, <<0,-50,0,-25>>>>,
    <<70, <<3,2,0,1>>, <<0,100,0,100>>>>, <<71, <<2,0,1,2,1>>, <<100,0,300,-100,0>>>>,
    <<71, <<2,1,1,0,2>>, <<100,400,300,0,0>>>>, <<71, <<2,0,0,2,2>>, <<0,0,0,-100,100>>>>,
    <<71, <<2,2,0,1,1>>, <<0,-100,0,200,100>>>>, <<71, <<1,0,1,2,2>>, <<0,0,300,-100,100>>>>>>

TestsOf72To75 == <<
    <<72, <<2,2,0,1,1>>, <<0,200,0,200,-100>>>>, <<72, <<2,2,1,1>>, <<200,0,400,100>>>>,
    <<72, <<1,2,1,1,1>>, <<0,200,-200,100,200>>>>, <<73, <<2,1,1,1>>, <<100,200,-300,0>>>>,
    <<73, <<1,2,1,1>>, <<100,-200,400,100>>>>, <<73, <<2,2,1>>, <<100,200,-300>>>>,
    <<74, <<1,3,1,1>>, <<-100,-200,700,300>>>>, <<74, <<1,1,2,2>>, <<-100,0,50,-300>>>>,
    <<74, <<0,1,4,1>>, <<0,0,-300,300>>>>, <<75, <<4>>, <<200>>>>, <<75, <<0,4>>, <<0,100>>>>,
    <<75, <<0,0,4>>, <<0,0,300>>>>, <<75, <<2,0,2>>, <<200,0,-100>>>>,
    <<75, <<1,1,2>>, <<0,100,-100>>>>, <<75, <<0,2,2>>, <<0,100,300>>>>>>

TestsOf76To78 == <<
    <<76, <<3,1,1>>, <<0,400,300>>>>, <<76, <<2,2,1>>, <<0,-100,300>>>>,
    <<76, <<2,1,1,1>>, <<0,-100,300,200>>>>, <<76, <<0,1,1,3>>, <<0,-100,-200,-300>>>>,
    <<77, <<1,2,1,1>>, <<300,100,-100,200>>>>, <<77, <<0,2,2,1>>, <<0,0,400,0>>>>,
    <<77, <<2,2,0,1>>, <<0,100,0,0>>>>, <<78, <<1,0,3,1,1>>, <<300,0,0,500,500>>>>,
    <<78, <<1,1,1,2,1>>, <<300,150,100,0,0>>>>, <<78, <<2,1,2,0,1>>, <<300,150,0,0,0>>>>,
    <<78, <<3,0,0,2,1>>, <<0,0,0,250,500>>>>, <<78, <<3,0,2,0,1>>, <<0,0,200,0,500>>>>>>

AllTests ==
    TestsOf1To4 \o TestsOf5To8 \o TestsOf9To11 \o TestsOf12To14 \o TestsOf15To17 \o
    TestsOf18To19 \o TestsOf20To23 \o TestsOf24To25 \o TestsOf26To27 \o TestsOf28To29 \o
    TestsOf30To31 \o TestsOf32To33 \o TestsOf34To36 \o TestsOf38To41 \o TestsOf42To47 \o
    TestsOf48To52 \o TestsOf53To57 \o TestsOf58To60 \o TestsOf61To66 \o TestsOf67To71 \o
    TestsOf72To75 \o TestsOf76To78

Spread(counts, of) == FlattenSeq([o \in DOMAIN counts |-> [i \in 1 .. counts[o] |-> of[o]]])

\* As a table: what everybody chose, and what he has afterwards.
Tests ==
    {LET test == AllTests[t]
     IN  [question |-> test[1],
          choices |-> Spread(test[2], [o \in DOMAIN test[2] |-> o - 1]),
          points |-> Spread(test[2], test[3])] : t \in DOMAIN AllTests}

Expected == [q \in 1 .. 159 |-> {test \in Tests : test.question = q}]

=============================================================================
