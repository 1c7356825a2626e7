---------------------------- MODULE MCTouchScreen ----------------------------
(***************************************************************************)
(* Positions inside FIRE, UP and CAMERA, chosen so that their bytes, mixed *)
(* with each other, would hit MANUAL, AUTOMATIC and DOWN; and the corner   *)
(* of the sensor.                                                          *)
(***************************************************************************)
EXTENDS TouchScreen

AtFire == <<3050, 3810>>     \* (595, 446)
AtUp == <<2060, 150>>        \* (402, 17)
AtCamera == <<1000, 3700>>   \* (195, 433)
AtCorner == <<4095, 4095>>   \* (799, 480)

MCRaws == {AtFire, AtUp, AtCamera, AtCorner}
=============================================================================
