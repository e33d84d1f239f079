----------------------------- MODULE SoapyRates -----------------------------
(***************************************************************************)
(* The sample rates SoapyOsmoFL2K::listSampleRates offers                  *)
(* (src/SoapySDR/SampleRates.cpp), up to 2^24, where the table, made with  *)
(* floats, begins to be rounded.                                           *)
(***************************************************************************)
EXTENDS Sequences

Rates1 ==
  <<7777777, 7903225, 7936507, 8032786, 8064515, 8095237, 8166666,
    8196720, 8225805, 8253967, 8305084, 8333332, 8360654, 8387095,
    8412697, 8448275, 8474575, 8499998, 8524588, 8548385, 8571427,
    8596490, 8620688, 8644066, 8666664, 8688522, 8709675, 8730157,
    8749999, 8771928, 8793101, 8813557, 8833330, 8852456, 8870965,
    8888887, 8909090, 8928570, 8947366, 8965514, 8983048, 8999996,
    9016390, 9032255, 9047617, 9074073, 9090908, 9107141, 9122804,
    9137927, 9152539, 9166662, 9180324, 9193545, 9206347, 9245282,
    9259258, 9272726, 9285712, 9298242, 9310340, 9322030, 9333328,
    9344258, 9354835, 9365077, 9423076, 9433961, 9444443, 9454544,
    9464283, 9473680, 9482753, 9491521, 9499994, 9508192, 9516125,
    9523807, 9607842, 9615383, 9622640, 9629628, 9636362, 9642854,
    9649118, 9655166, 9661012, 9666660, 9672126, 9677415, 9682537,
    9800000, 9803920, 9807690, 9811319, 9814813, 9818180, 9821425,
    9824556, 9827579, 9830503, 9833326, 9836060, 9838705, 9841267,
    9999992, 9999994, 9999995, 9999996, 9999997, 9999998, 9999999,
    10000000, 10161285, 10163928, 10166658, 10169485, 10172405, 10175432,
    10178567, 10181816, 10185183, 10188677, 10192304, 10196076, 10200000,
    10204080, 10208333, 10317460, 10327862, 10333324, 10338976, 10344818,
    10350870, 10357138, 10363634, 10370368, 10377356, 10384611, 10392154,
    10400000, 10408161, 10416666, 10425530, 10476190, 10483870, 10499990,
    10508467, 10517231, 10526308>>

Rates2 ==
  <<10535709, 10545452, 10555553, 10566035, 10576918, 10588232, 10600000,
    10612242, 10624999, 10634920, 10638295, 10645160, 10652173, 10655737,
    10677958, 10689644, 10701746, 10714280, 10727270, 10740738, 10754714,
    10769225, 10784310, 10793650, 10800000, 10806450, 10816323, 10819671,
    10833332, 10851060, 10862057, 10869564, 10877184, 10888888, 10892851,
    10909088, 10925923, 10943393, 10952380, 10961532, 10967740, 10980388,
    10983605, 10999998, 11000000, 11016948, 11020404, 11041665, 11052622,
    11063825, 11071422, 11086955, 11090906, 11111108, 11111110, 11129030,
    11132072, 11136362, 11147539, 11153839, 11166664, 11176466, 11186439,
    11200000, 11206895, 11224485, 11249993, 11249998, 11269840, 11272724,
    11276590, 11290320, 11296293, 11304346, 11311473, 11320751, 11333330,
    11333332, 11346146, 11355930, 11363634, 11372544, 11379308, 11395348,
    11400000, 11403508, 11428566, 11428570, 11451610, 11454542, 11458331,
    11475407, 11481478, 11489355, 11499996, 11509430, 11521737, 11525421,
    11538453, 11551721, 11555554, 11568622, 11578946, 11587300, 11590906,
    11600000, 11607142, 11612900, 11627906, 11632647, 11639341, 11666662,
    11666663, 11666664, 11666666, 11694912, 11698109, 11702120, 11724134,
    11730760, 11739128, 11746030, 11754384, 11764700, 11774190, 11777776,
    11785713, 11800000, 11803275, 11818178, 11818181, 11833328, 11836728,
    11860464, 11864403, 11874997, 11886788, 11896547, 11904760, 11904761,
    11914885, 11923067, 11929822, 11935480, 11951219, 11956519, 11960778,
    11964284, 11967209, 11999994>>

Rates3 ==
  <<11999998, 11999999, 12000000, 12033894, 12037036, 12040809, 12045450,
    12063490, 12068960, 12083330, 12093022, 12096770, 12105260, 12115374,
    12127650, 12131143, 12142855, 12142856, 12156856, 12166660, 12173910,
    12181817, 12195121, 12200000, 12203385, 12222220, 12222221, 12241373,
    12244890, 12250000, 12258060, 12264150, 12272722, 12280698, 12291663,
    12295077, 12321426, 12325580, 12333326, 12340415, 12352934, 12363635,
    12372876, 12380950, 12380951, 12391301, 12400000, 12407406, 12413786,
    12419350, 12439023, 12444442, 12448971, 12452829, 12456136, 12459011,
    12499992, 12499994, 12499996, 12499997, 12499999, 12500000, 12539680,
    12542367, 12545453, 12553180, 12558138, 12564102, 12580640, 12586199,
    12592591, 12600000, 12608692, 12619046, 12622945, 12631574, 12641508,
    12653052, 12666658, 12666664, 12678568, 12682925, 12692306, 12708329,
    12711858, 12727266, 12727271, 12741930, 12745097, 12750000, 12758612,
    12765945, 12777776, 12786879, 12790696, 12807012, 12820512, 12826083,
    12830187, 12833324, 12857133, 12857139, 12857141, 12857142, 12881349,
    12884613, 12888886, 12894735, 12909089, 12916662, 12926827, 12931025,
    12941175, 12950813, 12954538, 12962961, 12978710, 12982450, 12999990,
    13000000, 13015872, 13018866, 13023254, 13035710, 13043474, 13050840,
    13064515, 13076920, 13076922, 13090907, 13095236, 13103438, 13111108,
    13124995, 13137253, 13148146, 13157888, 13157892, 13166656, 13170729,
    13174602, 13181810, 13191475, 13200000, 13207545, 13214281, 13220331,
    13225805, 13243242, 13250000>>

Rates4 ==
  <<13255812, 13260865, 13265305, 13269227, 13272725, 13275851, 13278688,
    13333326, 13333330, 13333331, 13333332, 13387095, 13389822, 13392852,
    13396224, 13400000, 13404240, 13409082, 13414631, 13421049, 13442622,
    13448264, 13454543, 13461534, 13469386, 13478256, 13488370, 13492062,
    13499999, 13500000, 13508764, 13513512, 13518516, 13529409, 13541666,
    13548385, 13555552, 13571423, 13571426, 13584903, 13589742, 13600000,
    13606556, 13611110, 13620677, 13636354, 13636361, 13650792, 13653841,
    13658533, 13666665, 13673467, 13684202, 13684206, 13695647, 13703701,
    13709675, 13720928, 13725487, 13728813, 13749994, 13749999, 13750000,
    13770490, 13773582, 13777774, 13783782, 13800000, 13809521, 13809522,
    13818179, 13829786, 13833331, 13846148, 13846152, 13859640, 13863626,
    13870965, 13877548, 13888886, 13888887, 13898304, 13902435, 13921565,
    13928565, 13934424, 13947363, 13953486, 13958332, 13962261, 13965516,
    13968252, 13999996, 13999997, 13999999, 14000000, 14032255, 14038455,
    14042551, 14047616, 14054052, 14067795, 14074071, 14081629, 14090898,
    14098358, 14102562, 14107136, 14117643, 14126982, 14130434, 14137929,
    14146337, 14150940, 14166663, 14166664, 14166665, 14181815, 14186044,
    14193545, 14200000, 14210520, 14210525, 14230762, 14237286, 14250000,
    14255316, 14259256, 14262292, 14285710, 14285711, 14285712, 14285713,
    14310342, 14313721, 14318170, 14324322, 14333329, 14339619, 14347825,
    14354835, 14358972, 14363633, 14374998, 14385963, 14390239, 14400000,
    14406777, 14411764, 14418602>>

Rates5 ==
  <<14423069, 14426226, 14444441, 14444442, 14444444, 14464285, 14468081,
    14473677, 14482755, 14489791, 14499995, 14500000, 14509799, 14516125,
    14523806, 14528298, 14561401, 14565216, 14571427, 14576268, 14583331,
    14590160, 14594592, 14600000, 14603172, 14615376, 14615382, 14629626,
    14634141, 14642856, 14651160, 14655168, 14666661, 14666666, 14677415,
    14680846, 14693872, 14705877, 14705881, 14716977, 14722218, 14727272,
    14736834, 14736839, 14745759, 14750000, 14754094, 14761901, 14761902,
    14772726, 14782607, 14791664, 14800000, 14807683, 14821427, 14827581,
    14833327, 14838705, 14848484, 14857141, 14864862, 14871792, 14878043,
    14888888, 14893611, 14897953, 14901955, 14905656, 14909090, 14912277,
    14915250, 14918028, 14920632, 14999990, 14999991, 14999993, 14999994,
    14999995, 14999996, 14999997, 14999998, 14999999, 15000000, 15079362,
    15081962, 15084741, 15087715, 15090908, 15098033, 15102034, 15106376,
    15111110, 15116278, 15121945, 15128202, 15135132, 15142855, 15151514,
    15161285, 15166659, 15172407, 15178569, 15185184, 15192297, 15200000,
    15208330, 15217389, 15227270, 15245896, 15250000, 15254232, 15263148,
    15263153, 15272726, 15277772, 15283018, 15294111, 15294115, 15306115,
    15312500, 15319141, 15322575, 15333325, 15333332, 15344820, 15348836,
    15357140, 15365847, 15370369, 15384612, 15396825, 15400000, 15405402,
    15409830, 15416663, 15423723, 15428569, 15434780, 15438591, 15454542,
    15454544, 15471697, 15476190, 15490189, 15499991, 15500000, 15510196,
    15517233, 15526305, 15531906>>

Rates6 ==
  <<15535711, 15555549, 15555554, 15555555, 15573764, 15576922, 15581394,
    15588232, 15593214, 15600000, 15614029, 15624996, 15625000, 15636362,
    15641022, 15645160, 15652171, 15660376, 15666657, 15675672, 15681814,
    15689646, 15714277, 15714282, 15714283, 15714285, 15740739, 15744671,
    15750000, 15757574, 15762705, 15769229, 15777776, 15789462, 15789467,
    15800000, 15806450, 15813952, 15818180, 15833323, 15833326, 15833329,
    15849055, 15853658, 15862059, 15869562, 15873015, 15882349, 15882352,
    15892853, 15897432, 15901638, 15909086, 15918358, 15925924, 15932196,
    15937500, 15945942, 15952380, 15957436, 15961536, 15964905, 15967740,
    15999997, 15999998, 16031745, 16034472, 16037734, 16041662, 16046510,
    16052619, 16060604, 16065572, 16071424, 16078430, 16086953, 16097560,
    16101687, 16111103, 16111109, 16122439, 16129030, 16136358, 16140343,
    16153842, 16153843, 16166666, 16170201, 16176466, 16181816, 16190475,
    16200000, 16206885, 16216212, 16222220, 16226413, 16229506, 16249995,
    16250000, 16274508, 16279068, 16285711, 16290320, 16296294, 16304344,
    16315776, 16315781, 16333332, 16333333, 16341462, 16346150, 16349205,
    16363630, 16363634, 16379298, 16382966, 16388880, 16393440, 16400000,
    16415092, 16428566, 16428570, 16440677, 16444442, 16451610, 16458328,
    16470583, 16470586, 16481479, 16486482, 16491219, 16499998, 16500000,
    16507935, 16511626, 16521735, 16530611, 16538457, 16545452, 16557374,
    16562500, 16571425, 16578933, 16585364, 16590902, 16595731, 16600000,
    16603771, 16607137, 16610168>>

Rates7 ==
  <<16612900, 16666657, 16666664, 16666665, 16666666, 16721308, 16724137,
    16727270, 16730764, 16734692, 16739126, 16744184, 16750000, 16756752,
    16764700, 16774190>>

SoapyOsmoFL2KSampleRates ==
  Rates1 \o Rates2 \o Rates3 \o Rates4 \o Rates5 \o Rates6 \o Rates7

=============================================================================
